---------------------------- MODULE Spec2Model ----------------------------
(***************************************************************************)
(* A model of the gcdgraph rule compiler and path engine:                  *)
(*   src/utils/grid.ts   row shift, move-rule lexer / parser / validator / *)
(*                       evaluator, compileMoveRightPredicate              *)
(*   src/utils/math.ts   gcd, prime helpers, createTransformFunction       *)
(*                       (the second, current copy: lines 451-1045)        *)
(*   src/components/InfiniteGraph.tsx  getEffectiveX, computeBigIsCoprime, *)
(*                       checkGoesNorth, traceForward                      *)
(*                                                                         *)
(* Expression texts are TLA+ strings, read character by character with     *)
(* SubSeq.  A JavaScript Number is a record [k, n, d]: a finite rational   *)
(* n/d in lowest terms (k = "fin"), +/-Infinity (k = "inf", n = +/-1),     *)
(* NaN (k = "nan"), or a finite value that is not rational, such as        *)
(* sin(1) (k = "irr", absorbing in arithmetic).  A BigInt is an integer.   *)
(* A call that can fail returns an outcome [st, v, err]: st = "ok" with    *)
(* the value, st = "throw" with the error message, or st = "hang" when the *)
(* code loops without end.                                                 *)
(***************************************************************************)
EXTENDS Integers, Sequences, FiniteSets, TLC

VARIABLES
  pc,               \* where the scenario stands: "compile", "ready", "called", ...
  moveRightExpr,    \* App state: text of the move rule
  moveRightCompiled,\* result of compileMoveRightPredicate, or NotCompiled
  predCall,         \* last call of the compiled predicate: args, raw outcome, result
  transformFunc,    \* App state: text of the transform
  activeTransform,  \* result of createTransformFunction, or NotCompiled
  transformCall,    \* last call of the transform: arg, float outcome, BigInt result
  rowShift,         \* prop rowShift (k)
  randomizeShift,   \* prop randomizeShift
  noiseSalt,        \* selects the pseudo-random row noise (see RowNoise)
  oracleCall,       \* last checkGoesNorth query and what it returned
  trace,            \* the running traceForward loop
  bigCaches,        \* cacheKeyRef and the four BigInt caches of InfiniteGraph
  pathStepLimit,    \* prop pathStepLimit
  fibMemo,          \* the memo tables fibCache and fibBigCache of the compiled transform
  heldProps,        \* props and memos closed over by callbacks of an earlier render
  backtraceLimit,   \* prop backtraceLimit
  search,           \* the running ancestor search
  pointers,         \* evCache, isPinching, prevPinchDiff, isDragging, lastPos, dragStartPos
  traced            \* tracedAnchor and tracedPath

vars == <<pc, moveRightExpr, moveRightCompiled, predCall, transformFunc, activeTransform,
          transformCall, rowShift, randomizeShift, noiseSalt, oracleCall, trace, bigCaches,
          pathStepLimit, fibMemo, heldProps, backtraceLimit, search, pointers, traced>>

-----------------------------------------------------------------------------
(* Bounds of the model *)

\* coordinates and arguments range over -MaxCoord .. MaxCoord
MaxCoord == 3

\* rule texts are all concatenations of at most MaxRuleChunks chunks of
\* RuleChunks, together with the texts of RuleSamples and CallTexts
MaxRuleChunks == 2

\* the row shift k ranges over -MaxShift .. MaxShift
MaxShift == 2

\* the stand-ins for the row noise are numbered 0 .. MaxSalt
MaxSalt == 0

\* a direction-oracle scenario makes at most MaxQueries queries, at
\* coordinates of -MaxQueryCoord .. MaxQueryCoord
MaxQueries == 2
MaxQueryCoord == 2

\* in a trace scenario the row shift ranges over -MaxTraceShift ..
\* MaxTraceShift
MaxTraceShift == 3

\* pathStepLimit ranges over 0 .. MaxBudget
MaxBudget == 5

-----------------------------------------------------------------------------
(* JavaScript Numbers *)

Abs(i) == IF i < 0 THEN -i ELSE i

Sign(i) == IF i < 0 THEN -1 ELSE IF i > 0 THEN 1 ELSE 0

RECURSIVE IntGcd(_, _)
IntGcd(a, b) == IF b = 0 THEN a ELSE IntGcd(b, a % b)

RECURSIVE IntPow(_, _)
IntPow(b, e) ==
  IF e = 0 THEN 1
  ELSE IF e % 2 = 1 THEN b * IntPow(b, e - 1)
  ELSE IntPow(b * b, e \div 2)

NaN == [k |-> "nan", n |-> 0, d |-> 1]
PosInf == [k |-> "inf", n |-> 1, d |-> 1]
NegInf == [k |-> "inf", n |-> -1, d |-> 1]
Irr == [k |-> "irr", n |-> 0, d |-> 1]

\* the rational n/d (d # 0) in lowest terms with a positive denominator
Rat(n, d) ==
  LET g == IntGcd(Abs(n), Abs(d))
      s == IF d < 0 THEN -1 ELSE 1
  IN [k |-> "fin", n |-> s * (n \div g), d |-> s * (d \div g)]

Num(i) == [k |-> "fin", n |-> i, d |-> 1]

IsFin(a) == a.k = "fin"
IsInt(a) == a.k = "fin" /\ a.d = 1
IsZero(a) == a.k = "fin" /\ a.n = 0
\* sign of a Number other than NaN / irr
NumSign(a) == Sign(a.n)

NumNeg(a) == IF a.k \in {"fin", "inf"} THEN [a EXCEPT !.n = -a.n] ELSE a

NumAdd(a, b) ==
  IF a.k = "nan" \/ b.k = "nan" THEN NaN
  ELSE IF a.k = "inf" /\ b.k = "inf" THEN (IF a.n = b.n THEN a ELSE NaN)
  ELSE IF a.k = "inf" THEN a
  ELSE IF b.k = "inf" THEN b
  ELSE IF a.k = "irr" \/ b.k = "irr" THEN Irr
  ELSE Rat(a.n * b.d + b.n * a.d, a.d * b.d)

NumSub(a, b) == NumAdd(a, NumNeg(b))

NumMul(a, b) ==
  IF a.k = "nan" \/ b.k = "nan" THEN NaN
  ELSE IF IsZero(a) \/ IsZero(b) THEN (IF a.k = "inf" \/ b.k = "inf" THEN NaN ELSE Num(0))
  ELSE IF a.k = "irr" \/ b.k = "irr" THEN Irr
  ELSE IF a.k = "inf" \/ b.k = "inf"
       THEN (IF NumSign(a) * NumSign(b) > 0 THEN PosInf ELSE NegInf)
  ELSE Rat(a.n * b.n, a.d * b.d)

\* the JavaScript operator a / b
NumDiv(a, b) ==
  IF a.k = "nan" \/ b.k = "nan" THEN NaN
  ELSE IF a.k = "inf" /\ b.k = "inf" THEN NaN
  ELSE IF IsZero(b) THEN (IF IsZero(a) THEN NaN
                          ELSE IF a.k = "irr" THEN Irr
                          ELSE IF NumSign(a) > 0 THEN PosInf ELSE NegInf)
  ELSE IF a.k = "irr" \/ b.k = "irr" THEN (IF b.k = "inf" THEN Num(0) ELSE Irr)
  ELSE IF a.k = "inf" THEN (IF NumSign(a) * NumSign(b) > 0 THEN PosInf ELSE NegInf)
  ELSE IF b.k = "inf" THEN Num(0)
  ELSE Rat(a.n * b.d, a.d * b.n)

\* truncation toward zero of the rational n/d, d > 0
TruncDiv(n, d) == IF n >= 0 THEN n \div d ELSE -((-n) \div d)

\* the JavaScript operator a % b (the result has the sign of a)
NumMod(a, b) ==
  IF a.k = "nan" \/ b.k = "nan" \/ a.k = "inf" \/ IsZero(b) THEN NaN
  ELSE IF b.k = "inf" THEN a
  ELSE IF a.k = "irr" \/ b.k = "irr" THEN Irr
  ELSE LET q == Rat(a.n * b.d, a.d * b.n)
           t == TruncDiv(q.n, q.d)
       IN NumSub(a, NumMul(b, Num(t)))

NumAbs(a) == IF a.k \in {"fin", "inf"} THEN [a EXCEPT !.n = Abs(a.n)] ELSE a

\* Math.floor, Math.ceil, Math.round (half up), Math.trunc
NumFloor(a) == IF a.k = "fin" THEN Num(a.n \div a.d) ELSE a
NumCeil(a) == IF a.k = "fin" THEN Num(-((-a.n) \div a.d)) ELSE a
NumRound(a) == IF a.k = "fin" THEN Num((2 * a.n + a.d) \div (2 * a.d)) ELSE a
NumTrunc(a) == IF a.k = "fin" THEN Num(TruncDiv(a.n, a.d)) ELSE a

\* a === b, a < b, a <= b on Numbers (every comparison with NaN is false)
NumEq(a, b) == a.k \in {"fin", "inf"} /\ a = b
NumLt(a, b) ==
  /\ a.k \in {"fin", "inf"} /\ b.k \in {"fin", "inf"}
  /\ IF a.k = "inf" THEN a.n < 0 /\ b # a
     ELSE IF b.k = "inf" THEN b.n > 0
     ELSE a.n * b.d < b.n * a.d
NumLe(a, b) == NumLt(a, b) \/ NumEq(a, b)

\* the exact r >= 0 with r^q = n when there is one, else -1
IntRoot(n, q) ==
  IF \E r \in 0..n : IntPow(r, q) = n THEN CHOOSE r \in 0..n : IntPow(r, q) = n ELSE -1

\* Math.pow(a, b)
NumPow(a, b) ==
  IF IsZero(b) THEN Num(1)
  ELSE IF a.k = "nan" \/ b.k = "nan" THEN NaN
  ELSE IF a.k = "irr" \/ b.k = "irr" THEN Irr
  ELSE IF b.k = "inf" THEN
         (IF a.k = "fin" /\ Abs(a.n) = a.d THEN NaN
          ELSE IF (a.k = "inf" \/ Abs(a.n) > a.d) = (b.n > 0) THEN PosInf ELSE Num(0))
  ELSE IF a.k = "inf" THEN
         (IF b.n < 0 THEN Num(0)
          ELSE IF a.n < 0 /\ b.d = 1 /\ b.n % 2 = 1 THEN NegInf ELSE PosInf)
  ELSE IF IsZero(a) THEN (IF b.n > 0 THEN Num(0) ELSE PosInf)
  ELSE IF b.d = 1 THEN
         (IF b.n > 0 THEN Rat(IntPow(a.n, b.n), IntPow(a.d, b.n))
          ELSE Rat(IntPow(a.d, -b.n), IntPow(a.n, -b.n)))
  ELSE IF a.n < 0 THEN NaN
  ELSE LET rn == IntRoot(a.n, b.d)
           rd == IntRoot(a.d, b.d)
       IN IF rn < 0 \/ rd < 0 THEN Irr
          ELSE IF b.n > 0 THEN Rat(IntPow(rn, b.n), IntPow(rd, b.n))
          ELSE Rat(IntPow(rd, -b.n), IntPow(rn, -b.n))

\* Math.PI and Math.E to seven digits
MathPI == Rat(355, 113)
MathE == Rat(2721, 1001)

\* Math.sin, cos, tan, log, sqrt, exp: exact where the result is rational
MathSin(a) == IF a.k \in {"nan", "inf"} THEN NaN ELSE IF IsZero(a) THEN Num(0) ELSE Irr
MathCos(a) == IF a.k \in {"nan", "inf"} THEN NaN ELSE IF IsZero(a) THEN Num(1) ELSE Irr
MathTan(a) == MathSin(a)
MathLog(a) ==
  IF a.k = "nan" THEN NaN
  ELSE IF a.k = "irr" THEN Irr
  ELSE IF a.n < 0 THEN NaN
  ELSE IF a.k = "inf" THEN PosInf
  ELSE IF a.n = 0 THEN NegInf
  ELSE IF a = Num(1) THEN Num(0) ELSE Irr
MathSqrt(a) == IF a.k \in {"nan", "irr"} THEN a
               ELSE IF a.n < 0 THEN NaN
               ELSE IF a.k = "inf" THEN PosInf
               ELSE NumPow(a, Rat(1, 2))
MathExp(a) ==
  IF a.k \in {"nan", "irr"} THEN a
  ELSE IF a.k = "inf" THEN (IF a.n > 0 THEN PosInf ELSE Num(0))
  ELSE IF a.n = 0 THEN Num(1) ELSE Irr

-----------------------------------------------------------------------------
(* Outcomes of a call *)

Ok(v) == [st |-> "ok", v |-> v, err |-> ""]
Throw(e) == [st |-> "throw", v |-> NaN, err |-> e]
Hang == [st |-> "hang", v |-> NaN, err |-> ""]

OkB(b) == [st |-> "ok", b |-> b, err |-> ""]
ThrowB(e) == [st |-> "throw", b |-> FALSE, err |-> e]
HangB == [st |-> "hang", b |-> FALSE, err |-> ""]

-----------------------------------------------------------------------------
(* src/utils/math.ts: gcd and the prime helpers *)

\* gcdBigInt(a, b): Euclid on the absolute values
RECURSIVE gcdBigIntLoop(_, _)
gcdBigIntLoop(x, y) == IF y = 0 THEN x ELSE gcdBigIntLoop(y, x % y)

\* gcdBigInt returning a as it is when b is 0
gcdBigIntSignedAtZero(a, b) == IF b = 0 THEN a ELSE gcdBigIntLoop(Abs(a), Abs(b))

gcdBigInt(a, b) == gcdBigIntLoop(Abs(a), Abs(b))

\* gcd(a, b) on Numbers: NaN unless both are finite, else Euclid on
\* |round(a)|, |round(b)| (the BigInt branch taken above MAX_SAFE_INTEGER
\* computes the same exact value)
gcd(a, b) ==
  IF a.k \in {"nan", "inf"} \/ b.k \in {"nan", "inf"} THEN NaN
  ELSE IF a.k = "irr" \/ b.k = "irr" THEN Irr
  ELSE Num(gcdBigIntLoop(Abs(NumRound(a).n), Abs(NumRound(b).n)))

\* getSmallestPrimeFactor(n): the for loop never ends when n is +Infinity
\* (n % i is NaN and i <= Infinity stays true)
getSmallestPrimeFactor(n) ==
  IF n.k = "nan" THEN Ok(NaN)
  ELSE IF n.k = "irr" THEN Ok(Irr)
  ELSE IF NumLe(n, Num(1)) THEN Ok(Num(1))
  ELSE IF NumEq(NumMod(n, Num(2)), Num(0)) THEN Ok(Num(2))
  ELSE IF n.k = "inf" THEN Hang
  ELSE LET top == n.n \div n.d
           hits == {i \in 3..top : i % 2 = 1 /\ i * i * n.d <= n.n
                                   /\ NumEq(NumMod(n, Num(i)), Num(0))}
       IN IF hits = {} THEN Ok(n)
          ELSE Ok(Num(CHOOSE i \in hits : \A j \in hits : i <= j))

\* isPrime(n)
isPrime(n) ==
  LET a == NumAbs(n)
      f == getSmallestPrimeFactor(a)
  IN IF a.k = "nan" THEN OkB(FALSE)
     ELSE IF a.k # "irr" /\ NumLe(a, Num(1)) THEN OkB(FALSE)
     ELSE IF f.st # "ok" THEN [st |-> f.st, b |-> FALSE, err |-> f.err]
     ELSE OkB(NumEq(f.v, a))

\* isPrime on an integer, as the path tracer calls it
isPrimeInt(p) == isPrime(Num(p)).b

-----------------------------------------------------------------------------
(* src/utils/grid.ts: numeric built-ins of the move rule *)

\* the for loop of getGreatestPrimeFactor from divisor d on: <<temp, gpf>>
RECURSIVE gpfLoop(_, _, _)
gpfLoop(temp, d, g) ==
  IF d * d > temp THEN <<temp, g>>
  ELSE IF temp % d = 0 THEN gpfLoop(temp \div d, d, d)
  ELSE gpfLoop(temp, d + 2, g)

\* the while loop of getGreatestPrimeFactor that strips the factors 2
RECURSIVE gpfTwos(_, _)
gpfTwos(temp, g) == IF temp % 2 = 0 THEN gpfTwos(temp \div 2, 2) ELSE <<temp, g>>

\* getGreatestPrimeFactor(n): with n = Infinity the for loop never ends
\* (d * d <= Infinity stays true)
getGreatestPrimeFactor(n0) ==
  LET n == NumAbs(NumRound(n0))
  IN IF n.k = "nan" THEN Ok(Num(1))
     ELSE IF n.k = "irr" THEN Ok(Irr)
     ELSE IF n.k = "inf" THEN Hang
     ELSE IF n.n <= 1 THEN Ok(Num(1))
     ELSE LET a == gpfTwos(n.n, 1)
              b == gpfLoop(a[1], 3, a[2])
          IN Ok(Num(IF b[1] > 1 THEN b[1] ELSE b[2]))

\* fibPair(n) = <<F(n), F(n+1)>> by fast doubling
RECURSIVE fibPair(_)
fibPair(n) ==
  IF n = 0 THEN <<0, 1>>
  ELSE LET ab == fibPair(n \div 2)
           a == ab[1]
           b == ab[2]
           c == a * (2 * b - a)
           d == a * a + b * b
       IN IF n % 2 = 1 THEN <<d, c + d>> ELSE <<c, d>>

\* fibonacciBigInt(n); the memo table only repeats values of fibPair
fibonacciBigInt(n) == fibPair(Abs(n))[1]

\* fib(n): BigInt(absN) throws a RangeError when absN is NaN or Infinity
fib(n) ==
  LET absN == NumFloor(NumAbs(n))
  IN IF absN.k = "irr" THEN Ok(Irr)
     ELSE IF NumLe(absN, Num(1)) THEN Ok(absN)
     ELSE IF absN.k # "fin" THEN Throw("RangeError: cannot convert to BigInt")
     ELSE Ok(Num(fibonacciBigInt(absN.n)))

RECURSIVE factProduct(_)
factProduct(n) == IF n <= 1 THEN 1 ELSE n * factProduct(n - 1)

\* fact(n): the loop bound BigInt(absN) throws a RangeError when absN is NaN
\* or Infinity
fact(n) ==
  LET absN == NumFloor(NumAbs(n))
  IN IF absN.k = "irr" THEN Ok(Irr)
     ELSE IF NumLe(absN, Num(1)) THEN Ok(Num(1))
     ELSE IF absN.k # "fin" THEN Throw("RangeError: cannot convert to BigInt")
     ELSE Ok(Num(factProduct(absN.n)))

\* primes in increasing order: is p the i-th prime
IsPrimeNat(p) == p > 1 /\ \A i \in 2..(p - 1) : p % i # 0

\* nthPrime(n), imported by grid.ts from ./math: the n-th prime
nthPrime(v) ==
  IF v.k = "irr" THEN Irr
  ELSE IF v.k # "fin" \/ NumLt(v, Num(1)) THEN NaN
  ELSE LET n == v.n \div v.d
       IN Num(CHOOSE p \in 2..(n * n + 2) :
                IsPrimeNat(p) /\ Cardinality({q \in 2..p : IsPrimeNat(q)}) = n)

\* primePi(n), imported by grid.ts from ./math: the number of primes <= n
primePi(v) ==
  IF v.k = "irr" THEN Irr
  ELSE IF v.k # "fin" THEN NaN
  ELSE Num(Cardinality({q \in 2..(v.n \div v.d) : IsPrimeNat(q)}))

-----------------------------------------------------------------------------
(* Characters of an expression text *)

Ch(s, i) == SubSeq(s, i, i)

Digits == {"0", "1", "2", "3", "4", "5", "6", "7", "8", "9"}
DigitVal == [c \in Digits |->
  CASE c = "0" -> 0 [] c = "1" -> 1 [] c = "2" -> 2 [] c = "3" -> 3 [] c = "4" -> 4
    [] c = "5" -> 5 [] c = "6" -> 6 [] c = "7" -> 7 [] c = "8" -> 8 [] c = "9" -> 9]
NumberChars == Digits \cup {"."}

LowerLetters == {"a", "b", "c", "d", "e", "f", "g", "h", "i", "j", "k", "l", "m",
                 "n", "o", "p", "q", "r", "s", "t", "u", "v", "w", "x", "y", "z"}
UpperToLower ==
  ("A" :> "a") @@ ("B" :> "b") @@ ("C" :> "c") @@ ("D" :> "d") @@ ("E" :> "e") @@
  ("F" :> "f") @@ ("G" :> "g") @@ ("H" :> "h") @@ ("I" :> "i") @@ ("J" :> "j") @@
  ("K" :> "k") @@ ("L" :> "l") @@ ("M" :> "m") @@ ("N" :> "n") @@ ("O" :> "o") @@
  ("P" :> "p") @@ ("Q" :> "q") @@ ("R" :> "r") @@ ("S" :> "s") @@ ("T" :> "t") @@
  ("U" :> "u") @@ ("V" :> "v") @@ ("W" :> "w") @@ ("X" :> "x") @@ ("Y" :> "y") @@
  ("Z" :> "z")
Letters == LowerLetters \cup DOMAIN UpperToLower

\* String.prototype.toLowerCase
RECURSIVE toLowerCase(_)
toLowerCase(s) ==
  IF s = "" THEN ""
  ELSE LET c == Ch(s, 1)
       IN (IF c \in DOMAIN UpperToLower THEN UpperToLower[c] ELSE c)
            \o toLowerCase(SubSeq(s, 2, Len(s)))

WhiteSpace == {" ", "\t", "\n", "\r"}

\* String.prototype.trim
RECURSIVE trim(_)
trim(s) ==
  IF s = "" THEN ""
  ELSE IF Ch(s, 1) \in WhiteSpace THEN trim(SubSeq(s, 2, Len(s)))
  ELSE IF Ch(s, Len(s)) \in WhiteSpace THEN trim(SubSeq(s, 1, Len(s) - 1))
  ELSE s

\* the first index j >= i with src[j] outside class (Len(src) + 1 if none)
RECURSIVE RunEnd(_, _, _)
RunEnd(src, i, class) ==
  IF i <= Len(src) /\ Ch(src, i) \in class THEN RunEnd(src, i + 1, class) ELSE i

\* the value of a run of decimal digits ("" is 0)
RECURSIVE DigitsValue(_)
DigitsValue(s) ==
  IF s = "" THEN 0
  ELSE 10 * DigitsValue(SubSeq(s, 1, Len(s) - 1)) + DigitVal[Ch(s, Len(s))]

\* An integer beyond the range of the numerators above is the pair <<hi, lo>>
\* standing for hi * 10^8 + lo, with 0 <= lo < 10^8.
Wide(hi, lo) == [k |-> "fin", n |-> <<hi, lo>>, d |-> 1]

\* 2^53 = 90071992 * 10^8 + 54740992: from there to 2^54 a double holds the
\* even integers only
AtLeastTwoTo53(hi, lo) == hi > 90071992 \/ (hi = 90071992 /\ lo >= 54740992)

\* the double nearest to hi * 10^8 + lo < 10^16: the integer itself below
\* 2^53 and when it is even; an odd one lies half way between its
\* neighbours and goes to the multiple of 4 (round half to even)
nearestDouble(hi, lo) ==
  IF hi <= 20 THEN Num(hi * 100000000 + lo)
  ELSE IF ~AtLeastTwoTo53(hi, lo) \/ lo % 2 = 0 THEN Wide(hi, lo)
  ELSE IF lo % 4 = 1 THEN Wide(hi, lo - 1)
  ELSE IF lo + 1 = 100000000 THEN Wide(hi + 1, 0)
  ELSE Wide(hi, lo + 1)

\* the Number a run of 10 to 16 decimal digits denotes
doubleOfDigits(s) ==
  nearestDouble(DigitsValue(SubSeq(s, 1, Len(s) - 8)),
                DigitsValue(SubSeq(s, Len(s) - 7, Len(s))))

\* parseFloat on a run of digits and dots: the longest prefix
\* digits [. digits] that holds a digit, NaN when there is none
parseFloat(s) ==
  LET intEnd == RunEnd(s, 1, Digits)
      hasDot == intEnd <= Len(s) /\ Ch(s, intEnd) = "."
      fracEnd == IF hasDot THEN RunEnd(s, intEnd + 1, Digits) ELSE intEnd
      intStr == SubSeq(s, 1, intEnd - 1)
      fracStr == IF hasDot THEN SubSeq(s, intEnd + 1, fracEnd - 1) ELSE ""
      scale == IntPow(10, Len(fracStr))
  IN IF intStr = "" /\ fracStr = "" THEN NaN
     ELSE IF fracStr = "" /\ Len(intStr) \in 10..16 THEN doubleOfDigits(intStr)
     ELSE Rat(DigitsValue(intStr) * scale + DigitsValue(fracStr), scale)

-----------------------------------------------------------------------------
(* src/utils/grid.ts: tokenize and addImplicitMultiplication *)

Tok(type, str) == [type |-> type, str |-> str, num |-> NaN]
NumTok(v) == [type |-> "num", str |-> "", num |-> v]

TwoCharOps == {"&&", "||", "==", "!=", "<=", ">="}
OneCharOps == {"+", "-", "*", "/", "%", "^", "<", ">", "!"}

canEndFactor(t) == t.type \in {"num", "ident", "rparen"}
canStartFactor(t) == t.type \in {"num", "ident", "lparen"}
isFunctionName(ident) == ident \notin {"x", "y", "e", "true", "false"}

\* one turn of the for loop of addImplicitMultiplication: is a "*" pushed
\* between the last token of result and cur
needsStar(result, cur) ==
  /\ Len(result) > 0
  /\ canEndFactor(result[Len(result)])
  /\ canStartFactor(cur)
  /\ ~(/\ result[Len(result)].type = "ident"
       /\ isFunctionName(result[Len(result)].str)
       /\ cur.type = "lparen")

\* the for loop of addImplicitMultiplication from token i on
RECURSIVE addImplicitMultiplicationFrom(_, _, _)
addImplicitMultiplicationFrom(tokens, i, result) ==
  IF i > Len(tokens) THEN result
  ELSE IF needsStar(result, tokens[i])
    THEN addImplicitMultiplicationFrom(tokens, i + 1, result \o <<Tok("op", "*"), tokens[i]>>)
  ELSE addImplicitMultiplicationFrom(tokens, i + 1, Append(result, tokens[i]))

addImplicitMultiplication(tokens) == addImplicitMultiplicationFrom(tokens, 1, <<>>)

\* the state of the while loop of tokenize: the index i (from 1), the
\* tokens pushed, and the message of the ParseError thrown ("" if none)
LexState(i, tokens) == [i |-> i, tokens |-> tokens, err |-> ""]
LexError(msg) == [i |-> 0, tokens |-> <<>>, err |-> msg]
\* tokens.push(tok); i += n
pushTok(st, tok, n) == LexState(st.i + n, Append(st.tokens, tok))

\* the number literal src[i..j-1] and the identifier src[i..j-1]
lexNumber(src, st, j) ==
  IF parseFloat(SubSeq(src, st.i, j - 1)).k # "fin" THEN LexError("Invalid number literal.")
  ELSE pushTok(st, NumTok(parseFloat(SubSeq(src, st.i, j - 1))), j - st.i)

lexIdent(src, st, j) ==
  pushTok(st, Tok("ident", toLowerCase(SubSeq(src, st.i, j - 1))), j - st.i)

\* one turn of the while loop of tokenize, ch being src[i]
tokenizeStep(src, st, ch) ==
  IF ch \in WhiteSpace THEN LexState(st.i + 1, st.tokens)
  ELSE IF st.i + 1 <= Len(src) /\ SubSeq(src, st.i, st.i + 1) \in TwoCharOps
    THEN pushTok(st, Tok("op", SubSeq(src, st.i, st.i + 1)), 2)
  ELSE IF ch \in OneCharOps THEN pushTok(st, Tok("op", ch), 1)
  ELSE IF ch = "," THEN pushTok(st, Tok("comma", ""), 1)
  ELSE IF ch = "(" THEN pushTok(st, Tok("lparen", ""), 1)
  ELSE IF ch = ")" THEN pushTok(st, Tok("rparen", ""), 1)
  ELSE IF ch \in NumberChars THEN lexNumber(src, st, RunEnd(src, st.i + 1, NumberChars))
  ELSE IF ch \in Letters THEN lexIdent(src, st, RunEnd(src, st.i + 1, Letters))
  ELSE LexError("Unexpected character '" \o ch \o "'.")

\* while (i < src.length) of tokenize
RECURSIVE tokenizeLoop(_, _)
tokenizeLoop(src, st) ==
  IF st.err # "" \/ st.i > Len(src) THEN st
  ELSE tokenizeLoop(src, tokenizeStep(src, st, Ch(src, st.i)))

\* tokens.push({ type: 'eof' }); return addImplicitMultiplication(tokens)
tokenizeEnd(st) ==
  IF st.err # "" THEN [ok |-> FALSE, err |-> st.err, tokens |-> <<>>]
  ELSE [ok |-> TRUE, err |-> "",
        tokens |-> addImplicitMultiplication(Append(st.tokens, Tok("eof", "")))]

\* tokenize(src): [ok, tokens, err], err being the message of the ParseError
tokenize(src) == tokenizeEnd(tokenizeLoop(src, LexState(1, <<>>)))

-----------------------------------------------------------------------------
(* src/utils/grid.ts: class Parser.  A NumNode or BoolNode is a record     *)
(* [kind, op, num, name, kids]; a parse method returns [ok, node, idx, err]:*)
(* the node and the parser's idx after it, or the ParseError's message.    *)

MkNode(kind, op, num, name, kids) ==
  [kind |-> kind, op |-> op, num |-> num, name |-> name, kids |-> kids]
NumLit(v) == MkNode("num", "", v, "", <<>>)
VarNode(name) == MkNode("var", "", NaN, name, <<>>)
UnaryNode(e) == MkNode("unary", "-", NaN, "", <<e>>)
BinaryNode(op, l, r) == MkNode("binary", op, NaN, "", <<l, r>>)
CallNode(name, args) == MkNode("call", "", NaN, name, args)
BoolLit(name) == MkNode("bool", "", NaN, name, <<>>)
NotNode(e) == MkNode("not", "!", NaN, "", <<e>>)
LogicNode(op, l, r) == MkNode("logic", op, NaN, "", <<l, r>>)
CmpNode(op, l, r) == MkNode("cmp", op, NaN, "", <<l, r>>)

Parsed(node, idx) == [ok |-> TRUE, node |-> node, idx |-> idx, err |-> ""]
ParseError(msg) == [ok |-> FALSE, node |-> NumLit(NaN), idx |-> 0, err |-> msg]

CmpOps == {"==", "!=", "<", "<=", ">", ">="}

\* this.atOp()?.value === value, and the same for a set of values
atOpIs(tokens, idx, value) == tokens[idx].type = "op" /\ tokens[idx].str = value
atOpIn(tokens, idx, values) == tokens[idx].type = "op" /\ tokens[idx].str \in values

\* this.expect(type) after a parsed node r
expect(tokens, r, type) ==
  IF ~r.ok THEN r
  ELSE IF tokens[r.idx].type # type THEN ParseError("Expected " \o type \o ".")
  ELSE Parsed(r.node, r.idx + 1)

\* the object literals the parse methods build from what they parsed
notOf(e) == IF e.ok THEN Parsed(NotNode(e.node), e.idx) ELSE e
negOf(e) == IF e.ok THEN Parsed(UnaryNode(e.node), e.idx) ELSE e
logicOf(op, left, right) ==
  IF right.ok THEN Parsed(LogicNode(op, left.node, right.node), right.idx) ELSE right
binaryOf(op, left, right) ==
  IF right.ok THEN Parsed(BinaryNode(op, left.node, right.node), right.idx) ELSE right
cmpOf(op, left, right) ==
  IF right.ok THEN Parsed(CmpNode(op, left.node, right.node), right.idx) ELSE right
callOf(name, args) == IF args.ok THEN Parsed(CallNode(name, args.node), args.idx) ELSE args
\* args.push(this.parseNum()): the node of an args result is the list so far
firstArg(a) == IF a.ok THEN Parsed(<<a.node>>, a.idx) ELSE a
pushArg(args, a) == IF a.ok THEN Parsed(Append(args.node, a.node), a.idx) ELSE a

RECURSIVE parseOr(_, _), parseOrLoop(_, _), parseAnd(_, _), parseAndLoop(_, _),
          parseUnaryBool(_, _), parseAtomBool(_, _), parseCmp(_, _), parseNum(_, _),
          parseAdd(_, _), parseAddLoop(_, _), parseMul(_, _), parseMulLoop(_, _),
          parsePow(_, _), parsePowRest(_, _), parseUnaryNum(_, _),
          parsePrimaryNum(_, _), parseIdent(_, _, _), parseArgsLoop(_, _)

parseOr(tokens, idx) == parseOrLoop(tokens, parseAnd(tokens, idx))

\* while (this.atOp()?.value === '||') of parseOr, left parsed so far
parseOrLoop(tokens, left) ==
  IF left.ok /\ atOpIs(tokens, left.idx, "||")
  THEN parseOrLoop(tokens, logicOf("||", left, parseAnd(tokens, left.idx + 1)))
  ELSE left

parseAnd(tokens, idx) == parseAndLoop(tokens, parseUnaryBool(tokens, idx))

\* while (this.atOp()?.value === '&&') of parseAnd, left parsed so far
parseAndLoop(tokens, left) ==
  IF left.ok /\ atOpIs(tokens, left.idx, "&&")
  THEN parseAndLoop(tokens, logicOf("&&", left, parseUnaryBool(tokens, left.idx + 1)))
  ELSE left

parseUnaryBool(tokens, idx) ==
  IF atOpIs(tokens, idx, "!") THEN notOf(parseUnaryBool(tokens, idx + 1))
  ELSE parseAtomBool(tokens, idx)

parseAtomBool(tokens, idx) ==
  IF tokens[idx].type = "lparen" THEN expect(tokens, parseOr(tokens, idx + 1), "rparen")
  ELSE IF tokens[idx].type = "ident" /\ tokens[idx].str \in {"true", "false"}
    THEN Parsed(BoolLit(tokens[idx].str), idx + 1)
  ELSE parseCmp(tokens, parseNum(tokens, idx))

\* parseAtomBool after const left = this.parseNum()
parseCmp(tokens, left) ==
  IF ~left.ok THEN left
  ELSE IF ~atOpIn(tokens, left.idx, CmpOps)
    THEN ParseError("Expected a comparison like 'gcd(x,y)==1'.")
  ELSE cmpOf(tokens[left.idx].str, left, parseNum(tokens, left.idx + 1))

parseNum(tokens, idx) == parseAdd(tokens, idx)

parseAdd(tokens, idx) == parseAddLoop(tokens, parseMul(tokens, idx))

\* while (true) of parseAdd, left parsed so far
parseAddLoop(tokens, left) ==
  IF left.ok /\ atOpIn(tokens, left.idx, {"+", "-"})
  THEN parseAddLoop(tokens,
         binaryOf(tokens[left.idx].str, left, parseMul(tokens, left.idx + 1)))
  ELSE left

parseMul(tokens, idx) == parseMulLoop(tokens, parsePow(tokens, idx))

\* while (true) of parseMul, left parsed so far
parseMulLoop(tokens, left) ==
  IF left.ok /\ atOpIn(tokens, left.idx, {"*", "/", "%"})
  THEN parseMulLoop(tokens,
         binaryOf(tokens[left.idx].str, left, parsePow(tokens, left.idx + 1)))
  ELSE left

parsePow(tokens, idx) == parsePowRest(tokens, parseUnaryNum(tokens, idx))

\* parsePow after let left = this.parseUnaryNum()
parsePowRest(tokens, left) ==
  IF left.ok /\ atOpIs(tokens, left.idx, "^")
  THEN binaryOf("^", left, parsePow(tokens, left.idx + 1))
  ELSE left

parseUnaryNum(tokens, idx) ==
  IF atOpIs(tokens, idx, "-") THEN negOf(parseUnaryNum(tokens, idx + 1))
  ELSE parsePrimaryNum(tokens, idx)

parsePrimaryNum(tokens, idx) ==
  IF tokens[idx].type = "num" THEN Parsed(NumLit(tokens[idx].num), idx + 1)
  ELSE IF tokens[idx].type = "ident" THEN parseIdent(tokens, idx + 1, tokens[idx].str)
  ELSE IF tokens[idx].type = "lparen"
    THEN expect(tokens, parseNum(tokens, idx + 1), "rparen")
  ELSE ParseError("Expected a number, variable, or function call.")

\* parsePrimaryNum after the identifier name was eaten
parseIdent(tokens, idx, name) ==
  IF name \in {"x", "y"} THEN Parsed(VarNode(name), idx)
  ELSE IF name = "pi" /\ tokens[idx].type # "lparen" THEN Parsed(NumLit(MathPI), idx)
  ELSE IF name = "e" /\ tokens[idx].type # "lparen" THEN Parsed(NumLit(MathE), idx)
  ELSE IF tokens[idx].type # "lparen"
    THEN ParseError("Unknown identifier '" \o name \o "'.")
  ELSE IF tokens[idx + 1].type = "rparen" THEN Parsed(CallNode(name, <<>>), idx + 2)
  ELSE callOf(name, expect(tokens,
         parseArgsLoop(tokens, firstArg(parseNum(tokens, idx + 1))), "rparen"))

\* while (this.at().type === 'comma') of parsePrimaryNum, args parsed so far
parseArgsLoop(tokens, args) ==
  IF args.ok /\ tokens[args.idx].type = "comma"
  THEN parseArgsLoop(tokens, pushArg(args, parseNum(tokens, args.idx + 1)))
  ELSE args

\* parseBoolRoot after const node = this.parseOr()
parseEnd(tokens, node) ==
  IF ~node.ok THEN node
  ELSE IF tokens[node.idx].type # "eof" THEN ParseError("Unexpected token after expression.")
  ELSE node

parseBoolRoot(tokens) == parseEnd(tokens, parseOr(tokens, 1))

-----------------------------------------------------------------------------
(* src/utils/grid.ts: validateNum, validateBool, evalNum, evalBool *)

ValidateUnaryMath == {"sin", "cos", "tan", "log", "sqrt", "abs", "floor", "ceil", "round",
                      "exp", "fib", "fact", "prime", "pi", "isprime"}

\* validateCall without the argument counts: every known name passes
validateCallAnyArity(name, argc) ==
  IF name \in ValidateUnaryMath \cup {"gcd", "lpf", "spf", "gpf", "mod"} THEN ""
  ELSE "Unknown function '" \o name \o "()'."

\* case 'call' of validateNum after node.args.forEach(validateNum): "" when
\* it returns, else the ParseError's message
validateCall(name, argc) ==
  IF name \in ValidateUnaryMath
    THEN (IF argc # 1 THEN name \o "() takes 1 argument." ELSE "")
  ELSE IF name = "gcd" THEN (IF argc # 2 THEN "gcd() takes 2 arguments." ELSE "")
  ELSE IF name \in {"lpf", "spf"}
    THEN (IF argc # 1 THEN name \o "() takes 1 argument." ELSE "")
  ELSE IF name = "gpf" THEN (IF argc # 1 THEN "gpf() takes 1 argument." ELSE "")
  ELSE IF name = "mod" THEN (IF argc # 2 THEN "mod() takes 2 arguments." ELSE "")
  ELSE "Unknown function '" \o name \o "()'."

RECURSIVE validateNum(_), validateEach(_, _)

\* validateNum on nodes[i], nodes[i+1], ...: the first error, "" if none
validateEach(nodes, i) ==
  IF i > Len(nodes) THEN ""
  ELSE IF validateNum(nodes[i]) # "" THEN validateNum(nodes[i])
  ELSE validateEach(nodes, i + 1)

\* validateNum(node): "" when it returns, else the ParseError's message
validateNum(node) ==
  IF node.kind \in {"num", "var"} THEN ""
  ELSE IF node.kind \in {"unary", "binary"} THEN validateEach(node.kids, 1)
  ELSE IF validateEach(node.kids, 1) # "" THEN validateEach(node.kids, 1)
  ELSE validateCall(node.name, Len(node.kids))

RECURSIVE validateBool(_)
validateBool(node) ==
  IF node.kind = "bool" THEN ""
  ELSE IF node.kind = "not" THEN validateBool(node.kids[1])
  ELSE IF node.kind = "logic"
    THEN (IF validateBool(node.kids[1]) # "" THEN validateBool(node.kids[1])
          ELSE validateBool(node.kids[2]))
  ELSE validateEach(node.kids, 1)

\* 1 : 0 of the isprime built-in
BoolToNum(o) == IF o.st = "ok" THEN Ok(Num(IF o.b THEN 1 ELSE 0))
                ELSE [st |-> o.st, v |-> NaN, err |-> o.err]

\* the unaryMath table of evalNum applied to v
evalUnaryMath(name, v) ==
  CASE name = "sin" -> Ok(MathSin(v))
    [] name = "cos" -> Ok(MathCos(v))
    [] name = "tan" -> Ok(MathTan(v))
    [] name = "log" -> Ok(MathLog(v))
    [] name = "sqrt" -> Ok(MathSqrt(v))
    [] name = "abs" -> Ok(NumAbs(v))
    [] name = "floor" -> Ok(NumFloor(v))
    [] name = "ceil" -> Ok(NumCeil(v))
    [] name = "round" -> Ok(NumRound(v))
    [] name = "exp" -> Ok(MathExp(v))
    [] name = "fib" -> fib(v)
    [] name = "fact" -> fact(v)
    [] name = "prime" -> Ok(nthPrime(v))
    [] name = "pi" -> Ok(primePi(v))
    [] name = "isprime" -> BoolToNum(isPrime(NumRound(v)))

EvalUnaryMath == {"sin", "cos", "tan", "log", "sqrt", "abs", "floor", "ceil", "round",
                  "exp", "fib", "fact", "prime", "pi", "isprime"}

\* the arithmetic of a binary node; a zero divisor gives Infinity
evalBinary(op, a, b) ==
  CASE op = "+" -> NumAdd(a, b)
    [] op = "-" -> NumSub(a, b)
    [] op = "*" -> NumMul(a, b)
    [] op = "/" -> IF IsZero(b) THEN PosInf ELSE NumDiv(a, b)
    [] op = "%" -> IF IsZero(b) THEN PosInf ELSE NumMod(a, b)
    [] op = "^" -> NumPow(a, b)

\* case 'call' of evalNum once the arguments vs are evaluated
evalCall(name, argc, vs) ==
  IF name \in EvalUnaryMath
    THEN (IF argc # 1 THEN Throw(name \o "() takes 1 argument.")
          ELSE evalUnaryMath(name, vs[1]))
  ELSE IF name = "gcd"
    THEN (IF argc # 2 THEN Throw("gcd() takes 2 arguments.")
          ELSE Ok(gcd(NumRound(vs[1]), NumRound(vs[2]))))
  ELSE IF name \in {"lpf", "spf"}
    THEN (IF argc # 1 THEN Throw(name \o "() takes 1 argument.")
          ELSE getSmallestPrimeFactor(NumRound(vs[1])))
  ELSE IF name = "gpf"
    THEN (IF argc # 1 THEN Throw("gpf() takes 1 argument.")
          ELSE getGreatestPrimeFactor(NumRound(vs[1])))
  ELSE IF name = "mod"
    THEN (IF argc # 2 THEN Throw("mod() takes 2 arguments.")
          ELSE Ok(IF IsZero(vs[2]) THEN PosInf ELSE NumMod(vs[1], vs[2])))
  ELSE Throw("Unknown function '" \o name \o "()'.")

\* a unary, binary or call node once its operands as = [st, vs, err] are
\* evaluated (an operand that threw or hung ends the evaluation)
evalApply(node, as) ==
  IF as.st # "ok" THEN [st |-> as.st, v |-> NaN, err |-> as.err]
  ELSE IF node.kind = "unary" THEN Ok(NumNeg(as.vs[1]))
  ELSE IF node.kind = "binary" THEN Ok(evalBinary(node.op, as.vs[1], as.vs[2]))
  ELSE evalCall(node.name, Len(node.kids), as.vs)

\* the operands evaluated so far and the next one, a
evalPush(as, a) ==
  IF a.st # "ok" THEN [st |-> a.st, vs |-> <<>>, err |-> a.err]
  ELSE [st |-> "ok", vs |-> Append(as.vs, a.v), err |-> ""]

RECURSIVE evalNum(_, _, _), evalArgs(_, _, _, _, _)

\* node.args.map((n) => evalNum(n, x, y)), left to right: as = [st, vs, err]
\* holds the values of the operands before the i-th
evalArgs(nodes, i, x, y, as) ==
  IF as.st # "ok" \/ i > Len(nodes) THEN as
  ELSE evalArgs(nodes, i + 1, x, y, evalPush(as, evalNum(nodes[i], x, y)))

evalNum(node, x, y) ==
  IF node.kind = "num" THEN Ok(node.num)
  ELSE IF node.kind = "var" THEN Ok(IF node.name = "x" THEN x ELSE y)
  ELSE evalApply(node, evalArgs(node.kids, 1, x, y, [st |-> "ok", vs |-> <<>>, err |-> ""]))

\* the comparison of a cmp node
evalCmp(op, a, b) ==
  CASE op = "==" -> NumEq(a, b)
    [] op = "!=" -> ~NumEq(a, b)
    [] op = "<" -> NumLt(a, b)
    [] op = "<=" -> NumLe(a, b)
    [] op = ">" -> NumLt(b, a)
    [] op = ">=" -> NumLe(b, a)

\* a cmp node once its two sides as = [st, vs, err] are evaluated
evalCompare(op, as) ==
  IF as.st # "ok" THEN [st |-> as.st, b |-> FALSE, err |-> as.err]
  ELSE OkB(evalCmp(op, as.vs[1], as.vs[2]))

\* !e, and l && r / l || r with the right side r evaluated only when needed
evalNot(e) == IF e.st = "ok" THEN OkB(~e.b) ELSE e
shortCircuits(op, l) == l.st # "ok" \/ (op = "&&" /\ ~l.b) \/ (op = "||" /\ l.b)

RECURSIVE evalBool(_, _, _), evalLogic(_, _, _, _)
evalBool(node, x, y) ==
  IF node.kind = "bool" THEN OkB(node.name = "true")
  ELSE IF node.kind = "not" THEN evalNot(evalBool(node.kids[1], x, y))
  ELSE IF node.kind = "logic" THEN evalLogic(node, x, y, evalBool(node.kids[1], x, y))
  ELSE evalCompare(node.op,
         evalArgs(node.kids, 1, x, y, [st |-> "ok", vs |-> <<>>, err |-> ""]))

\* a logic node once its left side l is evaluated
evalLogic(node, x, y, l) ==
  IF shortCircuits(node.op, l) THEN l ELSE evalBool(node.kids[2], x, y)

-----------------------------------------------------------------------------
(* src/utils/grid.ts: compileMoveRightPredicate *)

DEFAULT_MOVE_RIGHT_EXPR == "gcd(x,y)==1"

\* the predicate returned from the catch block
coprimeFallback(x, y) == NumEq(gcd(NumRound(x), NumRound(y)), Num(1))

\* the value compileMoveRightPredicate(expression) returns: error, whether fn
\* is the fallback closure of the catch block, the ast the closure holds, and
\* fn.isDefaultCoprimeRule (flagSet is FALSE where the property is never set)
compileError(error) ==
  [error |-> error, fallback |-> TRUE, ast |-> NumLit(NaN),
   flagSet |-> FALSE, isDefaultCoprimeRule |-> FALSE]

\* compileAst without the call of validateBool
compileAstUnvalidated(src, root) ==
  IF ~root.ok THEN compileError(root.err)
  ELSE [error |-> "", fallback |-> FALSE, ast |-> root.node,
        flagSet |-> TRUE, isDefaultCoprimeRule |-> (src = DEFAULT_MOVE_RIGHT_EXPR)]

\* validateBool(ast) and the function built around ast
compileAst(src, root) ==
  IF ~root.ok THEN compileError(root.err)
  ELSE IF validateBool(root.node) # "" THEN compileError(validateBool(root.node))
  ELSE [error |-> "", fallback |-> FALSE, ast |-> root.node,
        flagSet |-> TRUE, isDefaultCoprimeRule |-> (src = DEFAULT_MOVE_RIGHT_EXPR)]

\* new Parser(tokens).parseBoolRoot() on the tokens of src
compileTokens(src, toks) ==
  IF ~toks.ok THEN compileError(toks.err) ELSE compileAst(src, parseBoolRoot(toks.tokens))

\* the try block of compileMoveRightPredicate on the text src
compileSource(src) == compileTokens(src, tokenize(src))

\* compileMoveRightPredicate without the trim of expression
compileUntrimmed(expression) ==
  IF Len(expression) > 0 THEN compileSource(expression)
  ELSE compileSource(DEFAULT_MOVE_RIGHT_EXPR)

\* compileMoveRightPredicate(expression): [error, fallback, ast, flagSet,
\* isDefaultCoprimeRule]; fallback says fn is the predicate of the catch
\* block, flagSet that fn carries the isDefaultCoprimeRule property
compileMoveRightPredicate(expression) ==
  IF Len(trim(expression)) > 0 THEN compileSource(trim(expression))
  ELSE compileSource(DEFAULT_MOVE_RIGHT_EXPR)

\* what evalBool does inside the compiled predicate, before its catch
predicateRaw(rule, x, y) ==
  IF rule.fallback THEN OkB(coprimeFallback(x, y)) ELSE evalBool(rule.ast, x, y)

\* the try / catch of the compiled predicate around raw: a thrown error is
\* replaced by the coprimality of the rounded arguments
predicateCatch(raw, x, y) ==
  IF raw.st = "throw" THEN OkB(coprimeFallback(x, y)) ELSE raw

\* the compiled predicate fn(x, y)
movePredicate(rule, x, y) == predicateCatch(predicateRaw(rule, x, y), x, y)

-----------------------------------------------------------------------------
(* Inputs of the move-rule scenarios *)

Coords == -MaxCoord..MaxCoord

RuleChunks == {" ", "gcd(x,y)==1", "gcd(x,y)", "==1", "x", "y", "<", "&&", "!", "(", ")",
               "1.5", "fib(x/y)", "isprime(", "#", "true"}

RECURSIVE ChunkTexts(_, _)
ChunkTexts(chunks, n) ==
  IF n = 0 THEN {""}
  ELSE LET shorter == ChunkTexts(chunks, n - 1)
       IN shorter \cup {t \o c : t \in shorter, c \in chunks}

RuleSamples == {"  ", " gcd(x,y)==1 ", "GCD(X,Y)==1", "gcd(x, y)==1", "gcd(y,x)==1",
                "gcd(x,y", "gcd(x,y)=1", "fact(1/y)==1", "fib(1/0)==1", "fib(x/y)>fact(y/x)",
                "isprime(x/y)==1", "gpf(x/y)==1", "spf(1/y)==1", "x%y==0", "mod(x,y)==1",
                "gcd(x,y)==1&&x<y", "true||fib(1/0)==1", "fib(1/0)==1||true",
                "(x+y)>1", "(x)==1", "1.2.3==x", "1..2==1", ".==1", "x^2>y", "2x==y+1",
                "e(x)==y", "pi==pi", "!(x<y)||y==0&&x>=1", "x y", "gcd(x,,y)==1",
                "fact(fib(x))<=y*y", "abs(x)-floor(y/2)!=0", "x<(y+1)", "1.5.==x"}

\* every name a call can carry: the built-ins and some names that are none
CallNames == {"sin", "cos", "tan", "log", "sqrt", "abs", "floor", "ceil", "round", "exp",
              "fib", "fact", "prime", "pi", "isprime", "spf", "lpf", "gpf", "gcd", "mod",
              "foo", "sign", "max"}
CallTexts == {n \o "(" \o a \o ")==1" : n \in CallNames, a \in {"", "x", "x,y", "x,y,1"}}

RuleTexts == ChunkTexts(RuleChunks, MaxRuleChunks) \cup RuleSamples \cup CallTexts

-----------------------------------------------------------------------------
(* Values of the variables a scenario does not use *)

NoRule == [error |-> "", fallback |-> TRUE, ast |-> NumLit(NaN),
           flagSet |-> FALSE, isDefaultCoprimeRule |-> FALSE]
\* the record of a call fn(x, y): what evalBool did and what fn returned
predicateCall(x, y, raw) ==
  [x |-> x, y |-> y, raw |-> raw, result |-> predicateCatch(raw, Num(x), Num(y))]

NoPredCall == [x |-> 0, y |-> 0, raw |-> OkB(FALSE), result |-> OkB(FALSE)]

-----------------------------------------------------------------------------
(* Scenario 1: a move rule is compiled and the predicate is called *)

InitPredicate ==
  /\ pc = "compile"
  /\ moveRightExpr \in RuleTexts
  /\ moveRightCompiled = NoRule
  /\ predCall = NoPredCall
  /\ transformFunc = "n"
  /\ activeTransform = 0
  /\ transformCall = 0
  /\ rowShift = 0
  /\ randomizeShift = FALSE
  /\ noiseSalt = 0
  /\ oracleCall = 0
  /\ trace = 0
  /\ bigCaches = 0
  /\ pathStepLimit = 0
  /\ fibMemo = 0
  /\ heldProps = 0
  /\ backtraceLimit = 0
  /\ search = 0
  /\ pointers = 0
  /\ traced = 0

\* useMemo(() => compileMoveRightPredicate(moveRightExpr))
CompileRule ==
  /\ pc = "compile"
  /\ moveRightCompiled' = compileMoveRightPredicate(moveRightExpr)
  /\ pc' = "ready"
  /\ UNCHANGED <<moveRightExpr, predCall, transformFunc, activeTransform, transformCall,
                 rowShift, randomizeShift, noiseSalt, oracleCall, trace, bigCaches, pathStepLimit,
                 fibMemo, heldProps, backtraceLimit, search,
                 pointers, traced>>

\* a caller invokes fn(x, y); raw is what evalBool did before the catch
CallPredicate(x, y) ==
  /\ pc = "ready"
  /\ predCall' = predicateCall(x, y, predicateRaw(moveRightCompiled, Num(x), Num(y)))
  /\ pc' = "called"
  /\ UNCHANGED <<moveRightExpr, moveRightCompiled, transformFunc, activeTransform,
                 transformCall, rowShift, randomizeShift, noiseSalt, oracleCall, trace, bigCaches,
          pathStepLimit,
                 fibMemo, heldProps, backtraceLimit, search,
                 pointers, traced>>

\* fn returns to its caller, which may call again; a call that hangs never does
PredicateReturn ==
  /\ pc = "called"
  /\ predCall.result.st = "ok"
  /\ pc' = "ready"
  /\ predCall' = NoPredCall
  /\ UNCHANGED <<moveRightExpr, moveRightCompiled, transformFunc, activeTransform,
                 transformCall, rowShift, randomizeShift, noiseSalt, oracleCall, trace, bigCaches,
          pathStepLimit,
                 fibMemo, heldProps, backtraceLimit, search,
                 pointers, traced>>

NextPredicate ==
  \/ CompileRule
  \/ \E x \in Coords, y \in Coords : CallPredicate(x, y)
  \/ PredicateReturn

SpecPredicate == InitPredicate /\ [][NextPredicate]_vars

-----------------------------------------------------------------------------
(* Properties of the move rule, under SpecPredicate *)

\* gcd(Math.round(x), Math.round(y)) === 1 on integers x, y
Coprime(x, y) == IntGcd(Abs(x), Abs(y)) = 1

IsBlank(text) == \A i \in 1..Len(text) : Ch(text, i) \in WhiteSpace

\* text is the canonical rule, character for character, between white space
IsPaddedDefault(text) ==
  \E a \in 0..Len(text) :
    /\ a + Len(DEFAULT_MOVE_RIGHT_EXPR) <= Len(text)
    /\ SubSeq(text, a + 1, a + Len(DEFAULT_MOVE_RIGHT_EXPR)) = DEFAULT_MOVE_RIGHT_EXPR
    /\ \A i \in 1..Len(text) :
         (i <= a \/ i > a + Len(DEFAULT_MOVE_RIGHT_EXPR)) => Ch(text, i) \in WhiteSpace

\* the text the three stages of compile work on, and whether one refuses it
SourceText(text) == IF IsBlank(text) THEN DEFAULT_MOVE_RIGHT_EXPR ELSE trim(text)
Rejected(text) ==
  LET toks == tokenize(SourceText(text))
      root == parseBoolRoot(toks.tokens)
  IN ~toks.ok \/ ~root.ok \/ validateBool(root.node) # ""

\* C1: every call of a compiled predicate on integers x, y returns a boolean
\* (it ends and nothing escapes it), and where a built-in failed at run time
\* the value returned is gcd(round x, round y) = 1.
C1_PredicateAlwaysReturns ==
  pc = "called" =>
    /\ predCall.result.st = "ok"
    /\ predCall.raw.st = "throw" =>
         predCall.result.b = Coprime(predCall.x, predCall.y)

\* C2: for a text that fails lexing, parsing or validation compile returns a
\* non-empty error and the fallback function; a call of that function returns
\* the coprimality of its arguments and nothing escapes it.
C2_RejectedTextFallsBack ==
  (pc # "compile" /\ Rejected(moveRightExpr)) =>
    /\ moveRightCompiled.error # ""
    /\ moveRightCompiled.fallback
    /\ pc = "called" =>
         /\ predCall.raw.st = "ok"
         /\ predCall.result = OkB(Coprime(predCall.x, predCall.y))

\* the text of the claim, "gcd(x,y", was compiled and its function called
C2_Witness ==
  /\ pc = "called"
  /\ moveRightExpr = "gcd(x,y"
  /\ moveRightCompiled.error = "Expected rparen."
  /\ predCall.x = 2 /\ predCall.y = 3
  /\ predCall.result = OkB(TRUE)

\* C3: a text that is empty or white space compiles to what the canonical
\* text "gcd(x,y)==1" compiles to and its predicate returns the same values;
\* the predicate carries isDefaultCoprimeRule = true exactly when the trimmed
\* text is empty or is the canonical text character for character.
C3_BlankIsDefaultRule ==
  pc # "compile" =>
    /\ IsBlank(moveRightExpr) =>
         moveRightCompiled = compileMoveRightPredicate(DEFAULT_MOVE_RIGHT_EXPR)
    /\ (IsBlank(moveRightExpr) /\ pc = "called") =>
         predCall.result = movePredicate(compileMoveRightPredicate(DEFAULT_MOVE_RIGHT_EXPR),
                                         Num(predCall.x), Num(predCall.y))
    /\ (moveRightCompiled.flagSet /\ moveRightCompiled.isDefaultCoprimeRule)
         <=> (IsBlank(moveRightExpr) \/ IsPaddedDefault(moveRightExpr))

\* a text of two spaces was compiled, carries the flag, and was called
C3_Witness ==
  /\ pc = "called"
  /\ moveRightExpr = "  "
  /\ moveRightCompiled.flagSet /\ moveRightCompiled.isDefaultCoprimeRule
  /\ predCall.x = 2 /\ predCall.y = 2
  /\ predCall.result = OkB(FALSE)

\* the number of arguments each built-in takes, -1 for any other name
BuiltinArity(name) ==
  IF name \in {"sin", "cos", "tan", "log", "sqrt", "abs", "floor", "ceil", "round", "exp",
               "fib", "fact", "prime", "pi", "isprime", "spf", "lpf", "gpf"} THEN 1
  ELSE IF name \in {"gcd", "mod"} THEN 2
  ELSE -1

RECURSIVE CallsWellFormed(_)
CallsWellFormed(node) ==
  /\ node.kind = "call" => BuiltinArity(node.name) = Len(node.kids)
  /\ \A i \in 1..Len(node.kids) : CallsWellFormed(node.kids[i])

\* every identifier that is not the name of a call
BareIdentifiersKnown(tokens) ==
  \A i \in 1..(Len(tokens) - 1) :
    (tokens[i].type = "ident" /\ tokens[i + 1].type # "lparen")
      => tokens[i].str \in {"x", "y", "pi", "e", "true", "false"}

\* C4: when compile accepts a text (error is empty) every call node of the
\* tree is a built-in with its fixed number of arguments and every bare
\* identifier is x, y, pi, e, true or false; evaluating the tree never throws
\* evalNum's own unknown-function or argument-count error.
C4_AcceptedCallsAreBuiltins ==
  (pc # "compile" /\ moveRightCompiled.error = "") =>
    /\ CallsWellFormed(moveRightCompiled.ast)
    /\ BareIdentifiersKnown(tokenize(SourceText(moveRightExpr)).tokens)
    /\ (pc = "called" /\ predCall.raw.st = "throw") =>
         predCall.raw.err = "RangeError: cannot convert to BigInt"

\* an accepted text with a call of two arguments was compiled and evaluated
C4_Witness ==
  /\ pc = "called"
  /\ moveRightExpr = "mod(x,y)==1"
  /\ moveRightCompiled.error = ""
  /\ moveRightCompiled.ast.kids[1].name = "mod"
  /\ predCall.x = 3 /\ predCall.y = 2
  /\ predCall.result = OkB(TRUE)

-----------------------------------------------------------------------------
(* src/utils/math.ts: createTransformFunction.  Its tokens are records     *)
(* [type, str, num] of type "num", "var", "op", "func", "lparen" or        *)
(* "rparen"; its fibPair and fibonacciBigInt are those of grid.ts, copied. *)

TransformFuncs == {"sin", "cos", "tan", "log", "sqrt", "abs", "floor", "ceil", "round",
                   "exp", "fib", "fact"}

VarTok == Tok("var", "")
FuncTok(name) == Tok("func", name)

\* fibonacci(n) from absN = Math.floor(Math.abs(n)) on: BigInt(absN) throws
\* a RangeError when absN is NaN or Infinity, and nothing catches it
fibonacciFrom(absN) ==
  IF absN.k = "irr" THEN Ok(Irr)
  ELSE IF NumLe(absN, Num(1)) THEN Ok(absN)
  ELSE IF absN.k # "fin" THEN Throw("RangeError: cannot convert to BigInt")
  ELSE Ok(Num(fibonacciBigInt(absN.n)))

fibonacci(n) == fibonacciFrom(NumFloor(NumAbs(n)))

\* factorial(n) from n = Math.floor(Math.abs(n)) on: with n = NaN the loop
\* for (i = 2; i <= n; i++) does not run, with n = Infinity it does not end
factorialFrom(n) ==
  IF n.k = "irr" THEN Ok(Irr)
  ELSE IF NumLe(n, Num(1)) \/ n.k = "nan" THEN Ok(Num(1))
  ELSE IF n.k = "inf" THEN Hang
  ELSE Ok(Num(factProduct(n.n)))

factorial(n) == factorialFrom(NumFloor(NumAbs(n)))

\* funcs[name](a)
funcs(name, a) ==
  IF name = "sin" THEN Ok(MathSin(a))
  ELSE IF name = "cos" THEN Ok(MathCos(a))
  ELSE IF name = "tan" THEN Ok(MathTan(a))
  ELSE IF name = "log" THEN Ok(MathLog(a))
  ELSE IF name = "sqrt" THEN Ok(MathSqrt(a))
  ELSE IF name = "abs" THEN Ok(NumAbs(a))
  ELSE IF name = "floor" THEN Ok(NumFloor(a))
  ELSE IF name = "ceil" THEN Ok(NumCeil(a))
  ELSE IF name = "round" THEN Ok(NumRound(a))
  ELSE IF name = "exp" THEN Ok(MathExp(a))
  ELSE IF name = "fib" THEN fibonacci(a)
  ELSE factorial(a)

\* precedence with ^ ranked below + and -
precedencePowLowest ==
  ("+" :> 1) @@ ("-" :> 1) @@ ("*" :> 2) @@ ("/" :> 2) @@ ("^" :> 0) @@ ("neg" :> 4)

precedence ==
  ("+" :> 1) @@ ("-" :> 1) @@ ("*" :> 2) @@ ("/" :> 2) @@ ("^" :> 3) @@ ("neg" :> 4)

isRightAssoc(op) == op \in {"^", "neg"}

\* transformIdent with x as the only name of the variable
transformIdentOnlyX(st, name, n) ==
  IF name = "x" THEN pushTok(st, VarTok, n)
  ELSE IF name = "pi" THEN pushTok(st, NumTok(MathPI), n)
  ELSE IF name = "e" THEN pushTok(st, NumTok(MathE), n)
  ELSE IF name \in TransformFuncs THEN pushTok(st, FuncTok(name), n)
  ELSE LexError("null")

\* the name src[i..j-1] of n characters, lower-cased; return null is the
\* error state of the loop
transformIdent(st, name, n) ==
  IF name \in {"x", "n"} THEN pushTok(st, VarTok, n)
  ELSE IF name = "pi" THEN pushTok(st, NumTok(MathPI), n)
  ELSE IF name = "e" THEN pushTok(st, NumTok(MathE), n)
  ELSE IF name \in TransformFuncs THEN pushTok(st, FuncTok(name), n)
  ELSE LexError("null")

\* the number src[i..j-1]
transformNumber(src, st, j) ==
  IF parseFloat(SubSeq(src, st.i, j - 1)).k = "nan" THEN LexError("null")
  ELSE pushTok(st, NumTok(parseFloat(SubSeq(src, st.i, j - 1))), j - st.i)

\* one turn of the while loop of tokenize, ch being src[i]
transformTokenizeStep(src, st, ch) ==
  IF ch \in {" ", "\t", "\n"} THEN LexState(st.i + 1, st.tokens)
  ELSE IF ch \in NumberChars
    THEN transformNumber(src, st, RunEnd(src, st.i + 1, NumberChars))
  ELSE IF ch \in Letters
    THEN transformIdent(st, toLowerCase(SubSeq(src, st.i, RunEnd(src, st.i + 1, Letters) - 1)),
                        RunEnd(src, st.i + 1, Letters) - st.i)
  ELSE IF ch \in {"+", "-", "*", "/", "^"} THEN pushTok(st, Tok("op", ch), 1)
  ELSE IF ch = "(" THEN pushTok(st, Tok("lparen", ""), 1)
  ELSE IF ch = ")" THEN pushTok(st, Tok("rparen", ""), 1)
  ELSE LexError("null")

RECURSIVE transformTokenizeLoop(_, _)
transformTokenizeLoop(src, st) ==
  IF st.err # "" \/ st.i > Len(src) THEN st
  ELSE transformTokenizeLoop(src, transformTokenizeStep(src, st, Ch(src, st.i)))

\* tokenize(src) of createTransformFunction: [ok, tokens], ok = FALSE for null
transformTokenizeEnd(st) == [ok |-> st.err = "", tokens |-> st.tokens]
transformTokenize(src) == transformTokenizeEnd(transformTokenizeLoop(src, LexState(1, <<>>)))

prevCanMultiply(t) == t.type \in {"num", "var", "rparen"}
nextCanMultiply(t) == t.type \in {"num", "var", "func", "lparen"}

\* one turn of the for loop of addImplicitMultiplication: is a "*" pushed
transformNeedsStar(result, cur) ==
  /\ Len(result) > 0
  /\ prevCanMultiply(result[Len(result)])
  /\ nextCanMultiply(cur)
  /\ ~(result[Len(result)].type = "func" /\ cur.type = "lparen")

RECURSIVE transformImplicitFrom(_, _, _)
transformImplicitFrom(tokens, i, result) ==
  IF i > Len(tokens) THEN result
  ELSE IF transformNeedsStar(result, tokens[i])
    THEN transformImplicitFrom(tokens, i + 1, result \o <<Tok("op", "*"), tokens[i]>>)
  ELSE transformImplicitFrom(tokens, i + 1, Append(result, tokens[i]))

\* addImplicitMultiplication(tokens) of createTransformFunction
transformAddImplicitMultiplication(tokens) == transformImplicitFrom(tokens, 1, <<>>)

\* stack[stack.length - 1], stack[stack.length - 2], and the stack after
\* one and after two calls of pop
Top(stack) == stack[Len(stack)]
Under(stack) == stack[Len(stack) - 1]
Popped(stack) == SubSeq(stack, 1, Len(stack) - 1)
PoppedTwice(stack) == SubSeq(stack, 1, Len(stack) - 2)

\* the state of the for loop of toRpn: output, stack, prev; fail for
\* return null
NoToken == Tok("none", "")
RpnState(output, stack, prev) ==
  [output |-> output, stack |-> stack, prev |-> prev, fail |-> FALSE]
RpnFail == [output |-> <<>>, stack |-> <<>>, prev |-> NoToken, fail |-> TRUE]

isUnary(tok, prev) == tok.str = "-" /\ prev.type \in {"none", "op", "lparen", "func"}
opVal(tok, prev) == IF isUnary(tok, prev) THEN "neg" ELSE tok.str

\* does the while loop of the "op" case pop top to output
outranks(top, cur) ==
  \/ top.type = "func"
  \/ /\ top.type = "op"
     /\ \/ precedence[top.str] > precedence[cur]
        \/ precedence[top.str] = precedence[cur] /\ ~isRightAssoc(cur)

\* the "op" case of toRpn: the while loop, then stack.push of the operator
RECURSIVE pushOperator(_, _, _, _)
pushOperator(output, stack, cur, tok) ==
  IF Len(stack) > 0 /\ outranks(Top(stack), cur)
    THEN pushOperator(Append(output, Top(stack)), Popped(stack), cur, tok)
  ELSE RpnState(output, Append(stack, Tok("op", cur)), tok)

\* the "rparen" case after its while loop: pop the lparen, then the func
closeCall(output, stack, tok) ==
  IF Len(stack) > 0 /\ Top(stack).type = "func"
    THEN RpnState(Append(output, Top(stack)), Popped(stack), tok)
  ELSE RpnState(output, stack, tok)

RECURSIVE closeParen(_, _, _)
closeParen(output, stack, tok) ==
  IF Len(stack) > 0 /\ Top(stack).type # "lparen"
    THEN closeParen(Append(output, Top(stack)), Popped(stack), tok)
  ELSE IF Len(stack) = 0 THEN RpnFail
  ELSE closeCall(output, Popped(stack), tok)

\* one turn of the for loop of toRpn
toRpnStep(st, tok) ==
  IF tok.type \in {"num", "var"} THEN RpnState(Append(st.output, tok), st.stack, tok)
  ELSE IF tok.type = "func" THEN RpnState(st.output, Append(st.stack, tok), tok)
  ELSE IF tok.type = "op" THEN pushOperator(st.output, st.stack, opVal(tok, st.prev), tok)
  ELSE IF tok.type = "lparen" THEN RpnState(st.output, Append(st.stack, tok), tok)
  ELSE closeParen(st.output, st.stack, tok)

RECURSIVE toRpnLoop(_, _, _)
toRpnLoop(tokens, i, st) ==
  IF st.fail \/ i > Len(tokens) THEN st
  ELSE toRpnLoop(tokens, i + 1, toRpnStep(st, tokens[i]))

\* the final while loop of toRpn: [ok, rpn], ok = FALSE for null
RECURSIVE toRpnDrain(_, _)
toRpnDrain(output, stack) ==
  IF Len(stack) = 0 THEN [ok |-> TRUE, rpn |-> output]
  ELSE IF Top(stack).type \in {"lparen", "rparen"} THEN [ok |-> FALSE, rpn |-> <<>>]
  ELSE toRpnDrain(Append(output, Top(stack)), Popped(stack))

toRpnEnd(st) ==
  IF st.fail THEN [ok |-> FALSE, rpn |-> <<>>] ELSE toRpnDrain(st.output, st.stack)

toRpn(tokens) == toRpnEnd(toRpnLoop(tokens, 1, RpnState(<<>>, <<>>, NoToken)))

\* the state of the for loop of evalRpn: the stack; null for return null;
\* st = "throw" / "hang" when a call of funcs[name] did not return
EvalState(stack) == [st |-> "ok", stack |-> stack, null |-> FALSE, err |-> ""]
EvalNull == [st |-> "ok", stack |-> <<>>, null |-> TRUE, err |-> ""]
EvalStop(o) == [st |-> o.st, stack |-> <<>>, null |-> FALSE, err |-> o.err]

\* the switch of evalRpn on a binary operator; for integers a # 0, b >= 0
\* the BigInt power is the exact value Math.pow rounds
rpnBinary(op, a, b) ==
  IF op = "+" THEN NumAdd(a, b)
  ELSE IF op = "-" THEN NumSub(a, b)
  ELSE IF op = "*" THEN NumMul(a, b)
  ELSE IF op = "/" THEN (IF IsZero(b) THEN PosInf ELSE NumDiv(a, b))
  ELSE NumPow(a, b)

\* stack.push(fn(a)) on the stack left by pop
pushOutcome(stack, o) == IF o.st = "ok" THEN EvalState(Append(stack, o.v)) ELSE EvalStop(o)

\* one turn of the for loop of evalRpn
evalRpnStep(st, tok, x) ==
  IF tok.type = "num" THEN EvalState(Append(st.stack, tok.num))
  ELSE IF tok.type = "var" THEN EvalState(Append(st.stack, x))
  ELSE IF tok.type = "op" /\ tok.str = "neg"
    THEN (IF Len(st.stack) < 1 THEN EvalNull
          ELSE EvalState(Append(Popped(st.stack), NumNeg(Top(st.stack)))))
  ELSE IF tok.type = "op"
    THEN (IF Len(st.stack) < 2 THEN EvalNull
          ELSE EvalState(Append(PoppedTwice(st.stack),
                                rpnBinary(tok.str, Under(st.stack), Top(st.stack)))))
  ELSE IF Len(st.stack) < 1 THEN EvalNull
  ELSE pushOutcome(Popped(st.stack), funcs(tok.str, Top(st.stack)))

RECURSIVE evalRpnLoop(_, _, _, _)
evalRpnLoop(rpn, i, x, st) ==
  IF st.st # "ok" \/ st.null \/ i > Len(rpn) THEN st
  ELSE evalRpnLoop(rpn, i + 1, x, evalRpnStep(st, rpn[i], x))

\* evalRpn(rpn, x): [st, null, v, err]
evalRpnEnd(st) ==
  IF st.st # "ok" THEN [st |-> st.st, null |-> FALSE, v |-> NaN, err |-> st.err]
  ELSE IF st.null \/ Len(st.stack) # 1 THEN [st |-> "ok", null |-> TRUE, v |-> NaN, err |-> ""]
  ELSE IF st.stack[1].k = "nan" THEN [st |-> "ok", null |-> TRUE, v |-> NaN, err |-> ""]
  ELSE [st |-> "ok", null |-> FALSE, v |-> st.stack[1], err |-> ""]

evalRpn(rpn, x) == evalRpnEnd(evalRpnLoop(rpn, 1, x, EvalState(<<>>)))

\* the state of the for loop of evalRpnBigInt: a stack of BigInts
BigState(stack) == [stack |-> stack, null |-> FALSE]
BigNull == [stack |-> <<>>, null |-> TRUE]

\* the while loop of "^": square and multiply, base squared only while
\* bits of e are left
RECURSIVE bigPow(_, _, _)
bigPow(result, base, e) ==
  IF e <= 0 THEN result
  ELSE bigPow(IF e % 2 = 1 THEN result * base ELSE result,
              IF e \div 2 > 0 THEN base * base ELSE base, e \div 2)

\* the switch of evalRpnBigInt on a binary operator, stack being what the
\* two calls of pop left
bigBinary(stack, op, a, b) ==
  IF op = "+" THEN BigState(Append(stack, a + b))
  ELSE IF op = "-" THEN BigState(Append(stack, a - b))
  ELSE IF op = "*" THEN BigState(Append(stack, a * b))
  ELSE IF op = "/"
    THEN (IF b = 0 THEN BigNull
          ELSE IF a % Abs(b) # 0 THEN BigNull
          ELSE BigState(Append(stack, TruncDiv(a * Sign(b), Abs(b)))))
  ELSE IF b < 0 \/ b > 4096 THEN BigNull
  ELSE BigState(Append(stack, bigPow(1, a, b)))

\* one turn of the for loop of evalRpnBigInt
evalRpnBigIntStep(st, tok, x) ==
  IF tok.type = "num"
    THEN (IF ~IsInt(tok.num) THEN BigNull ELSE BigState(Append(st.stack, tok.num.n)))
  ELSE IF tok.type = "var" THEN BigState(Append(st.stack, x))
  ELSE IF tok.type = "op" /\ tok.str = "neg"
    THEN (IF Len(st.stack) < 1 THEN BigNull
          ELSE BigState(Append(Popped(st.stack), -Top(st.stack))))
  ELSE IF tok.type = "op"
    THEN (IF Len(st.stack) < 2 THEN BigNull
          ELSE bigBinary(PoppedTwice(st.stack), tok.str, Under(st.stack), Top(st.stack)))
  ELSE IF tok.str # "fib" \/ Len(st.stack) < 1 THEN BigNull
  ELSE BigState(Append(Popped(st.stack), fibonacciBigInt(Top(st.stack))))

RECURSIVE evalRpnBigIntLoop(_, _, _, _)
evalRpnBigIntLoop(rpn, i, x, st) ==
  IF st.null \/ i > Len(rpn) THEN st
  ELSE evalRpnBigIntLoop(rpn, i + 1, x, evalRpnBigIntStep(st, rpn[i], x))

\* evalRpnBigInt(rpn, x): [null, v]
evalRpnBigIntEnd(st) ==
  IF st.null \/ Len(st.stack) # 1 THEN [null |-> TRUE, v |-> 0]
  ELSE [null |-> FALSE, v |-> st.stack[1]]

evalRpnBigInt(rpn, x) == evalRpnBigIntEnd(evalRpnBigIntLoop(rpn, 1, x, BigState(<<>>)))

\* tokens.every(...): every func is fib and every num is an integer
supportsBigInt(tokens) ==
  \A i \in 1..Len(tokens) :
    /\ tokens[i].type = "func" => tokens[i].str = "fib"
    /\ tokens[i].type = "num" => IsInt(tokens[i].num)

\* expression.replace(/\s+/g, "")
RECURSIVE stripWhitespace(_)
stripWhitespace(s) ==
  IF s = "" THEN ""
  ELSE IF Ch(s, 1) \in WhiteSpace THEN stripWhitespace(SubSeq(s, 2, Len(s)))
  ELSE Ch(s, 1) \o stripWhitespace(SubSeq(s, 2, Len(s)))

\* a TransformFunction: (x) => x without evalBigInt, or the evaluator of rpn
\* with evalBigInt when supportsBigInt
IdentityTransform == [identity |-> TRUE, rpn |-> <<>>, hasEvalBigInt |-> FALSE]

transformOfRpn(tokens, rpn) ==
  IF ~rpn.ok THEN IdentityTransform
  ELSE [identity |-> FALSE, rpn |-> rpn.rpn, hasEvalBigInt |-> supportsBigInt(tokens)]

transformOfTokens(toks) ==
  IF ~toks.ok THEN IdentityTransform
  ELSE transformOfRpn(toks.tokens, toRpn(transformAddImplicitMultiplication(toks.tokens)))

createTransformFunction(expression) ==
  IF trim(expression) = "" THEN IdentityTransform
  ELSE transformOfTokens(transformTokenize(stripWhitespace(expression)))

\* val === null ? x : val
valueOrArgument(val, x) ==
  IF val.st # "ok" THEN [st |-> val.st, v |-> NaN, err |-> val.err]
  ELSE IF val.null THEN Ok(x)
  ELSE Ok(val.v)

\* fn(x) of the function createTransformFunction returned
fn(transform, x) ==
  IF transform.identity THEN Ok(x) ELSE valueOrArgument(evalRpn(transform.rpn, x), x)

\* fn.evalBigInt(x), defined when hasEvalBigInt
evalBigInt(transform, x) == evalRpnBigInt(transform.rpn, x)

-----------------------------------------------------------------------------
(* Scenario 2: a transform is compiled and evaluated *)

TransformTexts ==
  {"", "  ", "n", "x", "N", " n ", "2x+1", "2 x + 1", "n(n+1)/2", "(n", "n)", "n+", "q",
   "n$", ".", "1.5n", "1.2.3", "pi", "e", "n-1", "-n", "--n", "n*n", "n^2", "2^n", "n/2",
   "1/n", "n/0", "0/0", "fib(n)", "fact(n)", "fib(1/(n-1))", "fact(1/0)", "fact(1/n)",
   "fib(0/0)", "fact(0/0)", "sqrt(n)", "abs(n)", "floor(n/2)", "ceil(n/2)", "round(n/2)",
   "sin(n)", "cos(n)", "tan(n)", "log(n)", "exp(n)", "fib n", "n n", "2(n)", "fib(fib(n))",
   "fib", "fib()", "max(n)", "n,1", "1^4096", "1^4097", "2^(0-1)", "n^n", "6/n",
   "9007199254740992", "9007199254740993", "9007199254740995"}

NoTransformCall ==
  [kind |-> "none", arg |-> 0, float |-> Ok(Num(0)), big |-> [null |-> TRUE, v |-> 0]]

InitTransform ==
  /\ pc = "compile"
  /\ transformFunc \in TransformTexts
  /\ activeTransform = IdentityTransform
  /\ transformCall = NoTransformCall
  /\ moveRightExpr = DEFAULT_MOVE_RIGHT_EXPR
  /\ moveRightCompiled = NoRule
  /\ predCall = NoPredCall
  /\ rowShift = 0
  /\ randomizeShift = FALSE
  /\ noiseSalt = 0
  /\ oracleCall = 0
  /\ trace = 0
  /\ bigCaches = 0
  /\ pathStepLimit = 0
  /\ fibMemo = 0
  /\ heldProps = 0
  /\ backtraceLimit = 0
  /\ search = 0
  /\ pointers = 0
  /\ traced = 0

\* useMemo(() => createTransformFunction(transformFunc))
CompileTransform ==
  /\ pc = "compile"
  /\ activeTransform' = createTransformFunction(transformFunc)
  /\ pc' = "ready"
  /\ UNCHANGED <<moveRightExpr, moveRightCompiled, predCall, transformFunc, transformCall,
                 rowShift, randomizeShift, noiseSalt, oracleCall, trace, bigCaches, pathStepLimit,
                 fibMemo, heldProps, backtraceLimit, search,
                 pointers, traced>>

\* a caller invokes activeTransform(v)
CallTransform(v) ==
  /\ pc = "ready"
  /\ transformCall' = [kind |-> "fn", arg |-> v, float |-> fn(activeTransform, Num(v)),
                       big |-> [null |-> TRUE, v |-> 0]]
  /\ pc' = "called"
  /\ UNCHANGED <<moveRightExpr, moveRightCompiled, predCall, transformFunc, activeTransform,
                 rowShift, randomizeShift, noiseSalt, oracleCall, trace, bigCaches, pathStepLimit,
                 fibMemo, heldProps, backtraceLimit, search,
                 pointers, traced>>

\* a caller invokes activeTransform.evalBigInt(BigInt(v)), when it is there
CallEvalBigInt(v) ==
  /\ pc = "ready"
  /\ activeTransform.hasEvalBigInt
  /\ transformCall' = [kind |-> "evalBigInt", arg |-> v, float |-> Ok(Num(0)),
                       big |-> evalBigInt(activeTransform, v)]
  /\ pc' = "called"
  /\ UNCHANGED <<moveRightExpr, moveRightCompiled, predCall, transformFunc, activeTransform,
                 rowShift, randomizeShift, noiseSalt, oracleCall, trace, bigCaches, pathStepLimit,
                 fibMemo, heldProps, backtraceLimit, search,
                 pointers, traced>>

\* the call returns to its caller; a call that threw or hangs does not
TransformReturn ==
  /\ pc = "called"
  /\ transformCall.float.st = "ok"
  /\ pc' = "ready"
  /\ transformCall' = NoTransformCall
  /\ UNCHANGED <<moveRightExpr, moveRightCompiled, predCall, transformFunc, activeTransform,
                 rowShift, randomizeShift, noiseSalt, oracleCall, trace, bigCaches, pathStepLimit,
                 fibMemo, heldProps, backtraceLimit, search,
                 pointers, traced>>

NextTransform ==
  \/ CompileTransform
  \/ \E v \in Coords : CallTransform(v)
  \/ \E v \in Coords : CallEvalBigInt(v)
  \/ TransformReturn

SpecTransform == InitTransform /\ [][NextTransform]_vars

-----------------------------------------------------------------------------
(* Properties of the transform, under SpecTransform *)

\* C5: the function createTransformFunction returns gives back a number for
\* every integer argument: the call ends and nothing is thrown out of it.
C5_TransformAlwaysReturns ==
  (pc = "called" /\ transformCall.kind = "fn") =>
    /\ transformCall.float.st = "ok"
    /\ transformCall.float.v.k # "nan"

\* C6: the transforms compiled from "n" and from "x" return their argument,
\* carry evalBigInt, and evalBigInt returns its argument exactly.
C6_IdentityTransforms ==
  (pc # "compile" /\ transformFunc \in {"n", "x"}) =>
    /\ activeTransform.hasEvalBigInt
    /\ (pc = "called" /\ transformCall.kind = "fn") =>
         transformCall.float = Ok(Num(transformCall.arg))
    /\ (pc = "called" /\ transformCall.kind = "evalBigInt") =>
         transformCall.big = [null |-> FALSE, v |-> transformCall.arg]

\* the exact evaluator of the transform "n" was called on a negative integer
C6_Witness ==
  /\ pc = "called"
  /\ transformFunc = "n"
  /\ transformCall.kind = "evalBigInt"
  /\ transformCall.arg = -MaxCoord
  /\ transformCall.big = [null |-> FALSE, v |-> -MaxCoord]

-----------------------------------------------------------------------------
(* src/utils/grid.ts: the row shift *)

\* Math.floor(fraction * magnitude) of getRowShiftMagnitude: a value of
\* 0 .. magnitude - 1 fixed by gy, magnitude and the sign of k.  The digits
\* Math.sin yields are not computed here; salt ranges over stand-ins.
RowNoise(gy, magnitude, negative, salt) ==
  (3 * Abs(gy) + (IF gy < 0 THEN 1 ELSE 0) + 5 * magnitude
     + (IF negative THEN 7 ELSE 0) + salt) % magnitude

\* getRowShiftMagnitude(gy, k, useRandom) for integers gy, k
getRowShiftMagnitude(gy, k, useRandom, salt) ==
  IF Abs(k) = 0 \/ Abs(gy) > Abs(k) THEN 0
  ELSE IF ~useRandom THEN Abs(k)
  ELSE RowNoise(gy, Abs(k), k < 0, salt)

\* getRowOffset without the change of sign below row 0
getRowOffsetSameSign(gy, k, useRandom, salt) ==
  IF gy # 0 THEN (IF k < 0 THEN -1 ELSE 1) * getRowShiftMagnitude(gy, k, useRandom, salt)
  ELSE 0

\* getRowOffset(gy, k, useRandom)
getRowOffset(gy, k, useRandom, salt) ==
  IF gy > 0 THEN (IF k < 0 THEN -1 ELSE 1) * getRowShiftMagnitude(gy, k, useRandom, salt)
  ELSE IF gy < 0
    THEN (IF k < 0 THEN -1 ELSE 1) * (-getRowShiftMagnitude(gy, k, useRandom, salt))
  ELSE 0

-----------------------------------------------------------------------------
(* src/components/InfiniteGraph.tsx: the direction oracle.  p is the       *)
(* record of the props and memos the callbacks close over.                 *)

BIGINT_X_CACHE_LIMIT == 100000
BIGINT_Y_CACHE_LIMIT == 100000
BIGINT_GCD_FLAG_CACHE_LIMIT == 400000
BIGINT_GCD_VALUE_CACHE_LIMIT == 50000

\* gcdIsOneBigInt(a, b), imported from ../utils/math
gcdIsOneBigInt(a, b) == gcdBigInt(a, b) = 1

\* Boolean(moveRightPredicate.isDefaultCoprimeRule)
isDefaultCoprimeRule(rule) == rule.flagSet /\ rule.isDefaultCoprimeRule

\* the memo canFastForward
canFastForwardOf(text, rule) ==
  isDefaultCoprimeRule(rule) /\ toLowerCase(trim(text)) \in {"n", "x"}

\* the memo cacheKey, field by field
cacheKeyOf(text, k, randomize, rule) == <<text, k, randomize, isDefaultCoprimeRule(rule)>>

GraphProps(text, transform, rule, k, randomize, salt) ==
  [transformFunc |-> text, activeTransform |-> transform, moveRightPredicate |-> rule,
   rowShift |-> k, randomizeShift |-> randomize, noiseSalt |-> salt,
   canFastForward |-> canFastForwardOf(text, rule),
   cacheKey |-> cacheKeyOf(text, k, randomize, rule)]

\* the offset > 0 branch of getEffectiveX
shiftedX(gx, gy, offset) ==
  IF offset > 0 /\ gy > 0 THEN gx - offset
  ELSE IF offset > 0 /\ gy < 0 THEN gx + offset
  ELSE gx

getEffectiveX(p, gx, gy) ==
  shiftedX(gx, gy, getRowShiftMagnitude(gy, p.rowShift, p.randomizeShift, p.noiseSalt))

\* a Map as a function on its keys; a value bigint | null, boolean | null
EmptyMap == <<>>
Has(map, key) == key \in DOMAIN map

NullFlag == [null |-> TRUE, b |-> FALSE]
Flag(b) == [null |-> FALSE, b |-> b]

\* the flag and the gcd computed at the gcd key k from empty tables
sweptFlag(transform, k) ==
  IF evalBigInt(transform, k[1]).null \/ evalBigInt(transform, k[2]).null THEN NullFlag
  ELSE Flag(gcdIsOneBigInt(evalBigInt(transform, k[1]).v, evalBigInt(transform, k[2]).v))

sweptValue(transform, k) ==
  gcdBigInt(evalBigInt(transform, k[1]).v, evalBigInt(transform, k[2]).v)

\* One of the four bounded Maps. more holds the entries set one by one. base
\* stands for the entries a sweep left: one call at every point of
\* (1..w) \X (1..h) from empty tables, with no row shift and under the
\* transform of text, leaves the keys 1..w in the x table, 1..h in the y
\* table and the rectangle in the gcd tables, each with the value computed
\* from its key.
Base(role, w, h, text) == [role |-> role, w |-> w, h |-> h, text |-> text]
NoBase == Base("none", 0, 0, "")
Table(base, more) == [base |-> base, more |-> more]
EmptyTable == Table(NoBase, <<>>)

InBase(base, key) ==
  IF base.role = "x" THEN key \in 1..base.w
  ELSE IF base.role = "y" THEN key \in 1..base.h
  ELSE IF base.role \in {"flag", "value"} THEN key \in (1..base.w) \X (1..base.h)
  ELSE FALSE

BaseSize(base) ==
  IF base.role = "x" THEN base.w
  ELSE IF base.role = "y" THEN base.h
  ELSE IF base.role \in {"flag", "value"} THEN base.w * base.h
  ELSE 0

BaseValue(base, key) ==
  IF base.role \in {"x", "y"} THEN evalBigInt(createTransformFunction(base.text), key)
  ELSE IF base.role = "flag" THEN sweptFlag(createTransformFunction(base.text), key)
  ELSE sweptValue(createTransformFunction(base.text), key)

\* map.has(key), map.get(key), map.size
TableHas(map, key) == key \in DOMAIN map.more \/ InBase(map.base, key)
TableGet(map, key) == IF key \in DOMAIN map.more THEN map.more[key] ELSE BaseValue(map.base, key)
TableSize(map) ==
  BaseSize(map.base) + Cardinality({k \in DOMAIN map.more : ~InBase(map.base, k)})

\* map.set(key, value) without the clear
SetUnbounded(map, limit, key, value) == Table(map.base, (key :> value) @@ map.more)

\* if (map.size >= limit) map.clear(); map.set(key, value)
SetWithin(map, limit, key, value) ==
  IF TableSize(map) >= limit THEN Table(NoBase, key :> value)
  ELSE Table(map.base, (key :> value) @@ map.more)

\* cacheKeyRef.current and the maps bigIntXCache, bigIntYCache,
\* bigGcdIsOneCache, bigGcdValueCache
Caches(key, x, y, flag, value) == [key |-> key, x |-> x, y |-> y, flag |-> flag, value |-> value]
NewCaches == Caches(<<>>, EmptyTable, EmptyTable, EmptyTable, EmptyTable)

\* the reset clearing the two gcd tables and keeping the transform tables
freshCachesKeepTransforms(caches, key) ==
  IF caches.key # key THEN Caches(key, caches.x, caches.y, EmptyTable, EmptyTable) ELSE caches

\* if (cacheKeyRef.current !== cacheKey) { ... clear() }
freshCaches(caches, key) ==
  IF caches.key # key THEN Caches(key, EmptyTable, EmptyTable, EmptyTable, EmptyTable) ELSE caches

\* what a call on the caches returns: the caches after it and its result
Computed(caches, result) == [caches |-> caches, result |-> result]

\* flagCache.set(gcdKey, flag) under its limit, and return flag
setFlag(caches, gcdKey, flag) ==
  Computed([caches EXCEPT !.flag = SetWithin(caches.flag, BIGINT_GCD_FLAG_CACHE_LIMIT,
                                            gcdKey, flag)], flag)

\* getCachedTransform(cache, limit, value): the cache after it
cachedTransform(transform, cache, limit, value) ==
  IF TableHas(cache, value) THEN cache
  ELSE SetWithin(cache, limit, value, evalBigInt(transform, value))

\* computeBigIsCoprime once vXBig and vYBig are in the caches
flagOfValues(caches, gcdKey, vXBig, vYBig) ==
  IF vXBig.null \/ vYBig.null THEN setFlag(caches, gcdKey, NullFlag)
  ELSE setFlag(caches, gcdKey, Flag(gcdIsOneBigInt(vXBig.v, vYBig.v)))

\* computeBigIsCoprime from the two calls of getCachedTransform on
withTransforms(caches, xInt, yInt) ==
  flagOfValues(caches, <<xInt, yInt>>, TableGet(caches.x, xInt), TableGet(caches.y, yInt))

\* computeBigIsCoprime after the reset of the caches and the two guards
cachedIsCoprime(transform, caches, xInt, yInt) ==
  IF TableHas(caches.flag, <<xInt, yInt>>) THEN Computed(caches, TableGet(caches.flag, <<xInt, yInt>>))
  ELSE IF TableHas(caches.value, <<xInt, yInt>>)
    THEN setFlag(caches, <<xInt, yInt>>, Flag(TableGet(caches.value, <<xInt, yInt>>) = 1))
  ELSE withTransforms(
         [caches EXCEPT !.x = cachedTransform(transform, caches.x, BIGINT_X_CACHE_LIMIT, xInt),
                        !.y = cachedTransform(transform, caches.y, BIGINT_Y_CACHE_LIMIT, yInt)],
         xInt, yInt)

\* the reset of the caches and the two guards, on the fresh caches
guardedIsCoprime(p, caches, xInt, yInt) ==
  IF ~isDefaultCoprimeRule(p.moveRightPredicate) \/ ~p.activeTransform.hasEvalBigInt
    THEN Computed(caches, NullFlag)
  ELSE cachedIsCoprime(p.activeTransform, caches, xInt, yInt)

\* computeBigIsCoprime(gx, gy): [caches, result], result a Flag or NullFlag
computeBigIsCoprime(p, caches, gx, gy) ==
  guardedIsCoprime(p, freshCaches(caches, p.cacheKey), getEffectiveX(p, gx, gy), gy)

\* computeBigGcdValue once vXBig and vYBig are in the caches: [caches, result],
\* result a [null, v]
valueOfTransforms(caches, gcdKey, vXBig, vYBig) ==
  IF vXBig.null \/ vYBig.null
    THEN Computed(setFlag(caches, gcdKey, NullFlag).caches, [null |-> TRUE, v |-> 0])
  ELSE Computed(
         setFlag([caches EXCEPT !.value = SetWithin(caches.value, BIGINT_GCD_VALUE_CACHE_LIMIT,
                                                    gcdKey, gcdBigInt(vXBig.v, vYBig.v))],
                 gcdKey, Flag(gcdBigInt(vXBig.v, vYBig.v) = 1)).caches,
         [null |-> FALSE, v |-> gcdBigInt(vXBig.v, vYBig.v)])

valueWithTransforms(caches, xInt, yInt) ==
  valueOfTransforms(caches, <<xInt, yInt>>, TableGet(caches.x, xInt), TableGet(caches.y, yInt))

cachedGcdValue(transform, caches, xInt, yInt) ==
  IF TableHas(caches.value, <<xInt, yInt>>)
    THEN Computed(caches, [null |-> FALSE, v |-> TableGet(caches.value, <<xInt, yInt>>)])
  ELSE IF TableHas(caches.flag, <<xInt, yInt>>) /\ TableGet(caches.flag, <<xInt, yInt>>).null
    THEN Computed(caches, [null |-> TRUE, v |-> 0])
  ELSE IF TableHas(caches.flag, <<xInt, yInt>>) /\ TableGet(caches.flag, <<xInt, yInt>>).b
    THEN Computed(caches, [null |-> FALSE, v |-> 1])
  ELSE valueWithTransforms(
         [caches EXCEPT !.x = cachedTransform(transform, caches.x, BIGINT_X_CACHE_LIMIT, xInt),
                        !.y = cachedTransform(transform, caches.y, BIGINT_Y_CACHE_LIMIT, yInt)],
         xInt, yInt)

guardedGcdValue(p, caches, xInt, yInt) ==
  IF ~isDefaultCoprimeRule(p.moveRightPredicate) \/ ~p.activeTransform.hasEvalBigInt
    THEN Computed(caches, [null |-> TRUE, v |-> 0])
  ELSE cachedGcdValue(p.activeTransform, caches, xInt, yInt)

\* computeBigGcdValue(gx, gy), which the draw loop calls for the labels
computeBigGcdValue(p, caches, gx, gy) ==
  guardedGcdValue(p, freshCaches(caches, p.cacheKey), getEffectiveX(p, gx, gy), gy)

\* the outcome of checkGoesNorth: the tier that decided (0 when a call did
\* not return), the BigInt flag, the rounded outputs, the predicate's
\* outcome, and what is returned
North(tier, big, vX, vY, pred, result) ==
  [tier |-> tier, big |-> big, vX |-> vX, vY |-> vY, pred |-> pred, result |-> result]

\* try { return !moveRightPredicate(vX, vY) } catch { return gcd(vX, vY) !== 1 }
\* with its value inverted
northOfPredicateSame(big, vX, vY, pred) ==
  IF pred.st = "ok" THEN North(2, big, vX, vY, pred, OkB(pred.b))
  ELSE IF pred.st = "throw"
    THEN North(3, big, vX, vY, pred, OkB(NumEq(gcd(vX, vY), Num(1))))
  ELSE North(0, big, vX, vY, pred, HangB)

\* try { return !moveRightPredicate(vX, vY) } catch { return gcd(vX, vY) !== 1 }
northOfPredicate(big, vX, vY, pred) ==
  IF pred.st = "ok" THEN North(2, big, vX, vY, pred, OkB(~pred.b))
  ELSE IF pred.st = "throw"
    THEN North(3, big, vX, vY, pred, OkB(~NumEq(gcd(vX, vY), Num(1))))
  ELSE North(0, big, vX, vY, pred, HangB)

\* the Number path: Math.round of the two outputs, then the predicate; an
\* error thrown by activeTransform leaves checkGoesNorth
northOfOutputs(rule, big, fx, fy) ==
  IF fx.st # "ok" THEN North(0, big, NaN, NaN, OkB(FALSE), [st |-> fx.st, b |-> FALSE, err |-> fx.err])
  ELSE IF fy.st # "ok"
    THEN North(0, big, NumRound(fx.v), NaN, OkB(FALSE), [st |-> fy.st, b |-> FALSE, err |-> fy.err])
  ELSE northOfPredicate(big, NumRound(fx.v), NumRound(fy.v),
                        movePredicate(rule, NumRound(fx.v), NumRound(fy.v)))

\* checkGoesNorth after computeBigIsCoprime returned isCoprime
northOfFlag(p, isCoprime, effectiveX, gy) ==
  IF ~isCoprime.null THEN North(1, isCoprime, NaN, NaN, OkB(FALSE), OkB(~isCoprime.b))
  ELSE northOfOutputs(p.moveRightPredicate, isCoprime,
                      fn(p.activeTransform, Num(effectiveX)), fn(p.activeTransform, Num(gy)))

\* checkGoesNorth(gx, gy): [caches, effectiveX, result], result a North
\* record
checkGoesNorthOn(p, big, effectiveX, gy) ==
  [caches |-> big.caches, effectiveX |-> effectiveX,
   result |-> northOfFlag(p, big.result, effectiveX, gy)]

checkGoesNorth(p, caches, gx, gy) ==
  checkGoesNorthOn(p, computeBigIsCoprime(p, caches, gx, gy), getEffectiveX(p, gx, gy), gy)

-----------------------------------------------------------------------------
(* Scenario 3: InfiniteGraph is mounted and the oracle is queried *)

Shifts == -MaxShift..MaxShift
Salts == 0..MaxSalt

QueryCoords == -MaxQueryCoord..MaxQueryCoord

\* pairs of a transform text and a rule text: the exact path alone, the
\* exact path declining on odd arguments, no exact evaluator, a custom rule,
\* a rejected rule, a transform that throws, a rule that hangs
OracleConfigs ==
  {<<"n", "">>, <<"n/2", " gcd(x,y)==1 ">>, <<"1.5n", "gcd(x,y)==1">>, <<"n", "x>y">>,
   <<"2n+1", "gcd(x,y">>, <<"fib(1/(n-1))", "gcd(y,x)==1">>, <<"n", "isprime(x/y)==1">>}

\* the props and memos of the mounted component in the current state
props ==
  GraphProps(transformFunc, activeTransform, moveRightCompiled, rowShift, randomizeShift,
             noiseSalt)

\* the record of a query: its number, its kind, its arguments, the row
\* shift at the time, and what the call computed
OracleCall(n, kind, x, y, k, effectiveX, offset, north, value) ==
  [n |-> n, kind |-> kind, x |-> x, y |-> y, k |-> k, effectiveX |-> effectiveX,
   offset |-> offset, north |-> north, value |-> value]

NoNorth == North(0, NullFlag, NaN, NaN, OkB(FALSE), OkB(FALSE))
NoValue == [null |-> TRUE, v |-> 0]
NoOracleCall == OracleCall(0, "none", 0, 0, 0, 0, 0, NoNorth, NoValue)

\* the component as mounted: both memos computed, refs at their initial
\* values; the noise is in use only when randomizeShift is set
InitGraph(configs, shifts) ==
  /\ \E c \in configs : transformFunc = c[1] /\ moveRightExpr = c[2]
  /\ activeTransform = createTransformFunction(transformFunc)
  /\ moveRightCompiled = compileMoveRightPredicate(moveRightExpr)
  /\ rowShift \in shifts
  /\ randomizeShift \in BOOLEAN
  /\ noiseSalt \in (IF randomizeShift THEN Salts ELSE {0})
  /\ bigCaches = NewCaches
  /\ predCall = NoPredCall
  /\ transformCall = NoTransformCall
  /\ oracleCall = NoOracleCall

InitOracle ==
  /\ pc = "ready"
  /\ InitGraph(OracleConfigs, Shifts)
  /\ trace = 0
  /\ pathStepLimit = 0
  /\ fibMemo = 0
  /\ heldProps = 0
  /\ backtraceLimit = 0
  /\ search = 0
  /\ pointers = 0
  /\ traced = 0

\* a caller invokes checkGoesNorth(x, y); a call that throws or hangs
\* leaves the scenario stuck
QueryNorth(x, y) ==
  /\ pc = "ready"
  /\ oracleCall.n < MaxQueries
  /\ \E r \in {checkGoesNorth(props, bigCaches, x, y)} :
       /\ bigCaches' = r.caches
       /\ oracleCall' = OracleCall(oracleCall.n + 1, "north", x, y, rowShift, r.effectiveX,
                                   0, r.result, NoValue)
       /\ pc' = IF r.result.result.st = "ok" THEN "ready" ELSE "stuck"
  /\ UNCHANGED <<moveRightExpr, moveRightCompiled, predCall, transformFunc, activeTransform,
                 transformCall, rowShift, randomizeShift, noiseSalt, trace,
                 pathStepLimit,
                 fibMemo, heldProps, backtraceLimit, search,
                 pointers, traced>>

\* the draw loop invokes computeBigGcdValue(x, y) for a label
QueryGcdValue(x, y) ==
  /\ pc = "ready"
  /\ oracleCall.n < MaxQueries
  /\ \E r \in {computeBigGcdValue(props, bigCaches, x, y)} :
       /\ bigCaches' = r.caches
       /\ oracleCall' = OracleCall(oracleCall.n + 1, "value", x, y, rowShift, 0, 0, NoNorth,
                                   r.result)
  /\ UNCHANGED <<pc, moveRightExpr, moveRightCompiled, predCall, transformFunc,
                 activeTransform, transformCall, rowShift, randomizeShift, noiseSalt, trace,
                 pathStepLimit,
                 fibMemo, heldProps, backtraceLimit, search,
                 pointers, traced>>

\* a caller invokes getRowOffset(gy, rowShift, randomizeShift)
QueryRowOffset(gy) ==
  /\ pc = "ready"
  /\ oracleCall.n < MaxQueries
  /\ oracleCall' = OracleCall(oracleCall.n + 1, "offset", 0, gy, rowShift, 0,
                              getRowOffset(gy, rowShift, randomizeShift, noiseSalt),
                              NoNorth, NoValue)
  /\ UNCHANGED <<pc, moveRightExpr, moveRightCompiled, predCall, transformFunc,
                 activeTransform, transformCall, rowShift, randomizeShift, noiseSalt, trace,
                 bigCaches, pathStepLimit,
                 fibMemo, heldProps, backtraceLimit, search,
                 pointers, traced>>

\* setRowShift(k) between two queries; the caches keep what they hold
\* until the next query sees the new cacheKey
SetRowShift(k) ==
  /\ pc = "ready"
  /\ oracleCall.n > 0
  /\ oracleCall.n < MaxQueries
  /\ k # rowShift
  /\ rowShift' = k
  /\ UNCHANGED <<pc, moveRightExpr, moveRightCompiled, predCall, transformFunc,
                 activeTransform, transformCall, randomizeShift, noiseSalt, oracleCall,
                 trace, bigCaches, pathStepLimit,
                 fibMemo, heldProps, backtraceLimit, search,
                 pointers, traced>>

NextOracle ==
  \/ \E x \in QueryCoords, y \in QueryCoords : QueryNorth(x, y)
  \/ \E x \in QueryCoords, y \in QueryCoords : QueryGcdValue(x, y)
  \/ \E gy \in Coords : QueryRowOffset(gy)
  \/ \E k \in Shifts : SetRowShift(k)

SpecOracle == InitOracle /\ [][NextOracle]_vars

-----------------------------------------------------------------------------
(* src/components/InfiniteGraph.tsx: traceForward *)

\* the JavaScript operator a % b on integers, b > 0
jsRem(a, b) == a - b * TruncDiv(a, b)

\* rem = ((effectiveX % p) + p) % p
remOf(effectiveX, p) == (jsRem(effectiveX, p) + p) % p

Min(a, b) == IF a < b THEN a ELSE b
Max(a, b) == IF a > b THEN a ELSE b

\* jump without the cap of the remaining budget
jumpUncapped(rem, p, left) == IF rem = 0 THEN 1 ELSE p - rem

\* jump = rem === 0 ? 1 : Math.min(p - rem, maxSteps - stepsUsed)
jump(rem, p, left) == IF rem = 0 THEN 1 ELSE Min(p - rem, left)

\* canJump = canFastForward && isPrime(p) && p > 1, with p = |currY|
canJump(props0, currY) ==
  props0.canFastForward /\ isPrimeInt(Abs(currY)) /\ Abs(currY) > 1

\* the state of the while loop of traceForward, with the last move made:
\* from (x, y) by d, north or east, the jump cut or not by the budget
Move(x, y, d, north, cut) == [x |-> x, y |-> y, d |-> d, north |-> north, cut |-> cut]
NoMove == Move(0, 0, 0, FALSE, FALSE)

Tracing(startX, startY, maxSteps, currX, currY, stepsUsed, points, last) ==
  [startX |-> startX, startY |-> startY, maxSteps |-> maxSteps, currX |-> currX,
   currY |-> currY, stepsUsed |-> stepsUsed, points |-> points, last |-> last]

NoTrace == Tracing(0, 0, 0, 0, 0, 0, <<>>, NoMove)

\* currX += d; stepsUsed += d; points.push(...)
movedEast(t, d, cut) ==
  [t EXCEPT !.currX = t.currX + d, !.stepsUsed = t.stepsUsed + d,
            !.points = Append(t.points, <<t.currX + d, t.currY>>),
            !.last = Move(t.currX, t.currY, d, FALSE, cut)]

\* currY += 1; stepsUsed += 1; points.push(...)
movedNorth(t) ==
  [t EXCEPT !.currY = t.currY + 1, !.stepsUsed = t.stepsUsed + 1,
            !.points = Append(t.points, <<t.currX, t.currY + 1>>),
            !.last = Move(t.currX, t.currY, 1, TRUE, FALSE)]

\* the canJump branch, rem being that of getEffectiveX(currX, currY)
jumped(t, rem, p) ==
  movedEast(t, jump(rem, p, t.maxSteps - t.stepsUsed),
            rem # 0 /\ p - rem > t.maxSteps - t.stepsUsed)

\* one turn of the while loop after checkGoesNorth returned goesNorth
traceTurn(props0, t, goesNorth) ==
  IF goesNorth THEN movedNorth(t)
  ELSE IF canJump(props0, t.currY)
    THEN jumped(t, remOf(getEffectiveX(props0, t.currX, t.currY), Abs(t.currY)), Abs(t.currY))
  ELSE movedEast(t, 1, FALSE)

-----------------------------------------------------------------------------
(* Scenario 4: InfiniteGraph is mounted and traceForward runs *)

Budgets == 0..MaxBudget
TraceShifts == -MaxTraceShift..MaxTraceShift

\* jump-eligible pairs of texts, two that are not, one whose transform
\* does not return, and a blank transform
TraceConfigs ==
  {<<"n", "">>, <<" X ", " gcd(x,y)==1 ">>, <<"2n", "">>, <<"n", "gcd(y,x)==1">>,
   <<"fact(1/0)", "">>, <<" ", "">>}

InitTrace ==
  /\ pc = "idle"
  /\ InitGraph(TraceConfigs, TraceShifts)
  /\ trace = NoTrace
  /\ \E limit \in Budgets : pathStepLimit = limit
  /\ fibMemo = 0
  /\ heldProps = 0
  /\ backtraceLimit = 0
  /\ search = 0
  /\ pointers = 0
  /\ traced = 0

\* traceForward(startX, startY) up to its while loop
StartTrace(startX, startY) ==
  /\ pc = "idle"
  /\ trace' = Tracing(startX, startY, Max(1, pathStepLimit), startX, startY, 0,
                      <<<<startX, startY>>>>, NoMove)
  /\ pc' = "tracing"
  /\ UNCHANGED <<moveRightExpr, moveRightCompiled, predCall, transformFunc, activeTransform,
                 transformCall, rowShift, randomizeShift, noiseSalt, oracleCall, bigCaches,
                 pathStepLimit,
                 fibMemo, heldProps, backtraceLimit, search,
                 pointers, traced>>

\* one turn of the while loop; a checkGoesNorth that throws or hangs leaves
\* the scenario stuck
TraceStep ==
  /\ pc = "tracing"
  /\ trace.stepsUsed < trace.maxSteps
  /\ \E r \in {checkGoesNorth(props, bigCaches, trace.currX, trace.currY)} :
       /\ bigCaches' = r.caches
       /\ IF r.result.result.st = "ok"
            THEN trace' = traceTurn(props, trace, r.result.result.b) /\ pc' = pc
            ELSE trace' = trace /\ pc' = "stuck"
  /\ UNCHANGED <<moveRightExpr, moveRightCompiled, predCall, transformFunc, activeTransform,
                 transformCall, rowShift, randomizeShift, noiseSalt, oracleCall,
                 pathStepLimit,
                 fibMemo, heldProps, backtraceLimit, search,
                 pointers, traced>>

\* the while loop ends and traceForward returns points
TraceReturn ==
  /\ pc = "tracing"
  /\ trace.stepsUsed >= trace.maxSteps
  /\ pc' = "traced"
  /\ UNCHANGED <<moveRightExpr, moveRightCompiled, predCall, transformFunc, activeTransform,
                 transformCall, rowShift, randomizeShift, noiseSalt, oracleCall, trace,
                 bigCaches, pathStepLimit,
                 fibMemo, heldProps, backtraceLimit, search,
                 pointers, traced>>

NextTrace ==
  \/ \E x \in Coords, y \in Coords : StartTrace(x, y)
  \/ TraceStep
  \/ TraceReturn

SpecTrace == InitTrace /\ [][NextTrace]_vars

-----------------------------------------------------------------------------
(* Properties of the direction oracle, under SpecOracle *)

\* the props and memos at the time of the last query
CallProps ==
  GraphProps(transformFunc, activeTransform, moveRightCompiled, oracleCall.k, randomizeShift,
             noiseSalt)

\* the exact values of the transform at the effective x and at y
ExactX == evalBigInt(activeTransform, oracleCall.effectiveX)
ExactY == evalBigInt(activeTransform, oracleCall.y)

\* the first tier applies: default rule, and the exact evaluator is there
\* and returns a value for both
ExactTierApplies ==
  /\ isDefaultCoprimeRule(moveRightCompiled)
  /\ activeTransform.hasEvalBigInt
  /\ ~ExactX.null /\ ~ExactY.null

FloatX == fn(activeTransform, Num(oracleCall.effectiveX))
FloatY == fn(activeTransform, Num(oracleCall.y))
RuleOnRounded == movePredicate(moveRightCompiled, NumRound(FloatX.v), NumRound(FloatY.v))

\* C7: checkGoesNorth(x, y) answers (1) from the exact gcd when the rule is
\* the default rule and the exact evaluator returns a value for effectiveX
\* and for y: north iff that gcd is not 1; (2) otherwise, when the transform
\* and the predicate return, north iff the predicate on the rounded outputs
\* is false; (3) north iff the gcd of the rounded outputs is not 1 when the
\* predicate throws.  The answer is the one a component that was never
\* queried gives.
C7_ThreeTiers ==
  oracleCall.kind = "north" =>
    /\ ExactTierApplies =>
         /\ oracleCall.north.tier = 1
         /\ oracleCall.north.result = OkB(gcdBigInt(ExactX.v, ExactY.v) # 1)
    /\ (~ExactTierApplies /\ FloatX.st = "ok" /\ FloatY.st = "ok") =>
         /\ oracleCall.north.tier # 1
         /\ oracleCall.north.vX = NumRound(FloatX.v)
         /\ oracleCall.north.vY = NumRound(FloatY.v)
         /\ RuleOnRounded.st = "ok" =>
              /\ oracleCall.north.tier = 2
              /\ oracleCall.north.result = OkB(~RuleOnRounded.b)
         /\ RuleOnRounded.st = "throw" =>
              /\ oracleCall.north.tier = 3
              /\ oracleCall.north.result =
                   OkB(~NumEq(gcd(NumRound(FloatX.v), NumRound(FloatY.v)), Num(1)))
    /\ oracleCall.north =
         checkGoesNorth(CallProps, NewCaches, oracleCall.x, oracleCall.y).result

\* a second query is answered by the rule on rounded outputs (1/2 rounds to
\* 1) while the caches hold the exact answer of the first query
C7_Witness ==
  /\ transformFunc = "n/2"
  /\ oracleCall.n = 2 /\ oracleCall.kind = "north"
  /\ oracleCall.x = 1 /\ oracleCall.y = 2 /\ oracleCall.k = 0
  /\ oracleCall.north.tier = 2
  /\ oracleCall.north.vX = Num(1) /\ oracleCall.north.vY = Num(1)
  /\ oracleCall.north.result = OkB(FALSE)
  /\ TableHas(bigCaches.flag, <<2, 2>>) /\ ~TableGet(bigCaches.flag, <<2, 2>>).null

\* C8: the effective x of a query is x minus the signed row offset:
\* getEffectiveX(gx, gy) = gx - getRowOffset(gy, k, randomize), for every
\* row shift k.
C8_EffectiveXIsXMinusOffset ==
  oracleCall.kind = "north" =>
    oracleCall.effectiveX =
      oracleCall.x - getRowOffset(oracleCall.y, oracleCall.k, randomizeShift, noiseSalt)

\* C9: getRowOffset(gy, k, randomize) is 0 when gy = 0, k = 0 or |gy| > |k|;
\* without randomize and with 0 < |gy| <= |k| it is k for gy > 0 and -k for
\* gy < 0.
C9_RowOffsetValues ==
  oracleCall.kind = "offset" =>
    /\ (oracleCall.y = 0 \/ oracleCall.k = 0 \/ Abs(oracleCall.y) > Abs(oracleCall.k))
         => oracleCall.offset = 0
    /\ (~randomizeShift /\ 0 < Abs(oracleCall.y) /\ Abs(oracleCall.y) <= Abs(oracleCall.k))
         => /\ oracleCall.y > 0 => oracleCall.offset = oracleCall.k
            /\ oracleCall.y < 0 => oracleCall.offset = -oracleCall.k
            /\ Abs(oracleCall.offset) = Abs(oracleCall.k)

\* the offset of a row below 0 under a negative shift was asked for
C9_Witness ==
  /\ oracleCall.kind = "offset"
  /\ ~randomizeShift
  /\ oracleCall.y = -1 /\ oracleCall.k = -2
  /\ oracleCall.offset = 2

-----------------------------------------------------------------------------
(* Properties of traceForward, under SpecTrace *)

\* what the oracle answers at (x, y), asked of a component never queried
GoesNorth(x, y) == checkGoesNorth(props, NewCaches, x, y).result.result.b

\* the point a trace that always advances by 1 reaches from (x, y) in steps
\* steps
RECURSIVE UnitTrace(_, _, _)
UnitTrace(x, y, steps) ==
  IF steps = 0 THEN <<x, y>>
  ELSE IF GoesNorth(x, y) THEN UnitTrace(x, y + 1, steps - 1)
  ELSE UnitTrace(x + 1, y, steps - 1)

\* C10: with the transform "n" or "x" and the default rule, whenever
\* traceForward moves east by d > 1 from (x, y) the oracle says east at
\* every (x + i, y), 0 <= i < d, and north at (x + d, y) unless the budget
\* cut the jump; the trace is at every turn where the trace by unit steps
\* is after as many steps, and ends where it ends, at the same cost.
C10_JumpRefinesUnitSteps ==
  (props.canFastForward /\ pc \in {"tracing", "traced"}) =>
    /\ (~trace.last.north /\ trace.last.d > 1) =>
         /\ \A i \in 0..(trace.last.d - 1) : ~GoesNorth(trace.last.x + i, trace.last.y)
         /\ ~trace.last.cut => GoesNorth(trace.last.x + trace.last.d, trace.last.y)
    /\ trace.stepsUsed <= trace.maxSteps
    /\ UnitTrace(trace.startX, trace.startY, trace.stepsUsed) = <<trace.currX, trace.currY>>
    /\ pc = "traced" =>
         /\ trace.stepsUsed = trace.maxSteps
         /\ UnitTrace(trace.startX, trace.startY, trace.maxSteps)
              = <<trace.currX, trace.currY>>

\* a finished trace whose last move was a jump east by more than 1 that the
\* budget did not cut, in a shifted row
C10_Witness ==
  /\ pc = "traced"
  /\ props.canFastForward
  /\ ~trace.last.north /\ trace.last.d > 1 /\ ~trace.last.cut
  /\ trace.last.y # 0 /\ Abs(trace.last.y) <= Abs(rowShift)
  /\ GoesNorth(trace.currX, trace.currY)

\* consecutive points of a path differ by (0, +1) or by (+d, 0), d >= 1
UnitOrEastSteps(points) ==
  \A i \in 1..(Len(points) - 1) :
    \/ points[i + 1][1] = points[i][1] /\ points[i + 1][2] = points[i][2] + 1
    \/ points[i + 1][2] = points[i][2] /\ points[i + 1][1] >= points[i][1] + 1

\* C20: traceForward respects its budget: for every pathStepLimit >= 0 and
\* every start the loop terminates (no turn waits for ever on the oracle),
\* the sum of the step costs never exceeds pathStepLimit, each jump is at
\* most the budget that was left, and consecutive points differ by (0, +1)
\* or by (+d, 0), d >= 1.
C20_TraceWithinBudget ==
  pc \in {"tracing", "traced", "stuck"} =>
    /\ pc # "stuck"
    /\ trace.stepsUsed <= pathStepLimit
    /\ trace.last.d <= trace.maxSteps - (trace.stepsUsed - trace.last.d)
    /\ UnitOrEastSteps(trace.points)

-----------------------------------------------------------------------------
(* src/utils/math.ts: fibonacci and fibonacciBigInt with their memo tables *)

\* fibCache and fibBigCache, one pair per createTransformFunction call
FibMemo(fibCache, fibBigCache) == [fibCache |-> fibCache, fibBigCache |-> fibBigCache]
NoFibMemo == FibMemo(EmptyMap, EmptyMap)

\* a value returned together with the tables the call left
Memoized(memo, v) == [memo |-> memo, v |-> v]

\* fibonacciBigInt keeping the second element of fibPair
fibonacciBigIntMemoSecond(memo, n) ==
  IF Has(memo.fibBigCache, Abs(n)) THEN Memoized(memo, memo.fibBigCache[Abs(n)])
  ELSE Memoized([memo EXCEPT !.fibBigCache = (Abs(n) :> fibPair(Abs(n))[2]) @@ @],
                fibPair(Abs(n))[2])

\* fibonacciBigInt(n): cached, or const [f] = fibPair(absN) and set
fibonacciBigIntMemo(memo, n) ==
  IF Has(memo.fibBigCache, Abs(n)) THEN Memoized(memo, memo.fibBigCache[Abs(n)])
  ELSE Memoized([memo EXCEPT !.fibBigCache = (Abs(n) :> fibPair(Abs(n))[1]) @@ @],
                fibPair(Abs(n))[1])

\* numVal = Number(bigVal); fibCache.set(absN, numVal); return numVal
fibonacciMemoStore(absN, big) ==
  Memoized([big.memo EXCEPT !.fibCache = (absN :> Num(big.v)) @@ @], Ok(Num(big.v)))

\* fibonacci(n) from absN = Math.floor(Math.abs(n)) on
fibonacciMemoFrom(memo, absN) ==
  IF absN.k = "fin" /\ Has(memo.fibCache, absN.n) THEN Memoized(memo, Ok(memo.fibCache[absN.n]))
  ELSE IF absN.k # "fin" \/ absN.n <= 1 THEN Memoized(memo, fibonacciFrom(absN))
  ELSE fibonacciMemoStore(absN.n, fibonacciBigIntMemo(memo, absN.n))

fibonacciMemo(memo, n) == fibonacciMemoFrom(memo, NumFloor(NumAbs(n)))

\* the rpn of "fib(n)": the variable, then the call
FibRpn == <<VarTok, FuncTok("fib")>>

-----------------------------------------------------------------------------
(* Scenario 5: the transforms of src/test-features.ts are compiled and     *)
(* called, and gcdBigInt is called as computeBigGcdValue calls it          *)

\* arguments of "fib(n)" run over -MaxFibArg .. MaxFibArg
MaxFibArg == 3
\* arguments of "2^n+1" run over 0 .. MaxPowArg
MaxPowArg == 29
\* arguments of gcdBigInt run over -MaxGcdArg .. MaxGcdArg
MaxGcdArg == 4

FeatureTexts == {"fib(n)", "prime(n)", "pi(n)", "2^n+1", "sign(n)"}

\* the arguments src/test-features.ts passes, and those around them
FeatureArgs(text) ==
  IF text = "fib(n)" THEN (-MaxFibArg..MaxFibArg) \cup {5, 10, 20}
  ELSE IF text = "prime(n)" THEN 1..6
  ELSE IF text = "pi(n)" THEN (0..3) \cup {10, 29}
  ELSE IF text = "2^n+1" THEN 0..MaxPowArg
  ELSE Coords \cup {-10, 10}

\* 2^29 and 3 * 2^29 stand for 2^61 and 3 * 2^61
GcdArgs == (-MaxGcdArg..MaxGcdArg) \cup {536870912, 1610612736, -536870912}

InitFeatures ==
  /\ pc = "compile"
  /\ transformFunc \in FeatureTexts
  /\ activeTransform = IdentityTransform
  /\ transformCall = NoTransformCall
  /\ fibMemo = NoFibMemo
  /\ moveRightExpr = DEFAULT_MOVE_RIGHT_EXPR
  /\ moveRightCompiled = NoRule
  /\ predCall = NoPredCall
  /\ rowShift = 0
  /\ randomizeShift = FALSE
  /\ noiseSalt = 0
  /\ oracleCall = 0
  /\ trace = 0
  /\ bigCaches = 0
  /\ pathStepLimit = 0
  /\ heldProps = 0
  /\ backtraceLimit = 0
  /\ search = 0
  /\ pointers = 0
  /\ traced = 0

\* createTransformFunction(text): new, empty memo tables and the function
CompileFeature ==
  /\ pc = "compile"
  /\ activeTransform' = createTransformFunction(transformFunc)
  /\ fibMemo' = NoFibMemo
  /\ pc' = "ready"
  /\ UNCHANGED <<moveRightExpr, moveRightCompiled, predCall, transformFunc, transformCall,
                 rowShift, randomizeShift, noiseSalt, oracleCall, trace, bigCaches, pathStepLimit,
                 heldProps, backtraceLimit, search,
                 pointers, traced>>

\* fibFn(v): evalRpn pushes x, pops it, pushes funcs.fib(x); fn returns the
\* value, or x when evalRpn returned null
CallFib(v) ==
  /\ pc = "ready"
  /\ activeTransform.rpn = FibRpn
  /\ \E r \in {fibonacciMemo(fibMemo, Num(v))} :
       /\ fibMemo' = r.memo
       /\ transformCall' =
            [kind |-> "fn", arg |-> v,
             float |-> valueOrArgument(evalRpnEnd(pushOutcome(<<>>, r.v)), Num(v)),
             big |-> [null |-> TRUE, v |-> 0]]
  /\ pc' = "called"
  /\ UNCHANGED <<moveRightExpr, moveRightCompiled, predCall, transformFunc, activeTransform,
                 rowShift, randomizeShift, noiseSalt, oracleCall, trace, bigCaches, pathStepLimit,
                 heldProps, backtraceLimit, search,
                 pointers, traced>>

\* fibFn.evalBigInt(BigInt(v)): evalRpnBigInt pushes x, pops it, pushes
\* fibonacciBigInt(x)
CallFibExact(v) ==
  /\ pc = "ready"
  /\ activeTransform.rpn = FibRpn
  /\ activeTransform.hasEvalBigInt
  /\ \E r \in {fibonacciBigIntMemo(fibMemo, v)} :
       /\ fibMemo' = r.memo
       /\ transformCall' =
            [kind |-> "evalBigInt", arg |-> v, float |-> Ok(Num(0)),
             big |-> evalRpnBigIntEnd(BigState(<<r.v>>))]
  /\ pc' = "called"
  /\ UNCHANGED <<moveRightExpr, moveRightCompiled, predCall, transformFunc, activeTransform,
                 rowShift, randomizeShift, noiseSalt, oracleCall, trace, bigCaches, pathStepLimit,
                 heldProps, backtraceLimit, search,
                 pointers, traced>>

\* primeFn(v), piFn(v), powerFn(v), signFn(v): no call of fib, the memo
\* tables are not touched
CallFeature(v) ==
  /\ pc = "ready"
  /\ activeTransform.rpn # FibRpn
  /\ transformCall' = [kind |-> "fn", arg |-> v, float |-> fn(activeTransform, Num(v)),
                       big |-> [null |-> TRUE, v |-> 0]]
  /\ pc' = "called"
  /\ UNCHANGED <<moveRightExpr, moveRightCompiled, predCall, transformFunc, activeTransform,
                 rowShift, randomizeShift, noiseSalt, oracleCall, trace, bigCaches, pathStepLimit,
                 fibMemo, heldProps, backtraceLimit, search,
                 pointers, traced>>

\* gcdBigInt(a, b)
CallGcdBigInt(a, b) ==
  /\ pc = "ready"
  /\ transformCall' = [kind |-> "gcdBigInt", arg |-> <<a, b>>, float |-> Ok(Num(0)),
                       big |-> [null |-> FALSE, v |-> gcdBigInt(a, b)]]
  /\ pc' = "called"
  /\ UNCHANGED <<moveRightExpr, moveRightCompiled, predCall, transformFunc, activeTransform,
                 rowShift, randomizeShift, noiseSalt, oracleCall, trace, bigCaches, pathStepLimit,
                 fibMemo, heldProps, backtraceLimit, search,
                 pointers, traced>>

\* the call returns to its caller
FeatureReturn ==
  /\ pc = "called"
  /\ transformCall.float.st = "ok"
  /\ pc' = "ready"
  /\ transformCall' = NoTransformCall
  /\ UNCHANGED <<moveRightExpr, moveRightCompiled, predCall, transformFunc, activeTransform,
                 rowShift, randomizeShift, noiseSalt, oracleCall, trace, bigCaches, pathStepLimit,
                 fibMemo, heldProps, backtraceLimit, search,
                 pointers, traced>>

NextFeatures ==
  \/ CompileFeature
  \/ \E v \in FeatureArgs(transformFunc) : CallFib(v)
  \/ \E v \in FeatureArgs(transformFunc) : CallFibExact(v)
  \/ \E v \in FeatureArgs(transformFunc) : CallFeature(v)
  \/ \E a \in GcdArgs, b \in GcdArgs : CallGcdBigInt(a, b)
  \/ FeatureReturn

SpecFeatures == InitFeatures /\ [][NextFeatures]_vars

-----------------------------------------------------------------------------
(* Properties of the transforms of src/test-features.ts, under SpecFeatures *)

\* the Fibonacci numbers by their recurrence: FibFrom(n, F(i), F(i+1)) = F(i+n)
RECURSIVE FibFrom(_, _, _)
FibFrom(n, a, b) == IF n = 0 THEN a ELSE FibFrom(n - 1, b, a + b)

Fibonacci(n) == FibFrom(n, 0, 1)

\* C13: for the transform compiled from "fib(n)" the floating evaluator and
\* the exact evaluator both return the Fibonacci number of |n| (0, 1, 5, 55,
\* 6765 at 0, 1, 5, 10, 20), so the two agree, whatever calls filled the
\* memo tables before; the tables hold nothing else, and the answers are
\* those of the evaluators without tables.
C13_FibBothEvaluators ==
  transformFunc = "fib(n)" =>
    /\ \A k \in DOMAIN fibMemo.fibBigCache : fibMemo.fibBigCache[k] = Fibonacci(k)
    /\ \A k \in DOMAIN fibMemo.fibCache : fibMemo.fibCache[k] = Num(Fibonacci(k))
    /\ (pc = "called" /\ transformCall.kind = "fn") =>
         /\ transformCall.float = Ok(Num(Fibonacci(Abs(transformCall.arg))))
         /\ transformCall.float = fn(activeTransform, Num(transformCall.arg))
         /\ transformCall.arg = 0 => transformCall.float.v = Num(0)
         /\ transformCall.arg = 1 => transformCall.float.v = Num(1)
         /\ transformCall.arg = 5 => transformCall.float.v = Num(5)
         /\ transformCall.arg = 10 => transformCall.float.v = Num(55)
         /\ transformCall.arg = 20 => transformCall.float.v = Num(6765)
    /\ (pc = "called" /\ transformCall.kind = "evalBigInt") =>
         /\ transformCall.big = [null |-> FALSE, v |-> Fibonacci(Abs(transformCall.arg))]
         /\ transformCall.big = evalBigInt(activeTransform, transformCall.arg)
         /\ Num(transformCall.big.v) = fn(activeTransform, Num(transformCall.arg)).v

\* fibFn(20) after exact calls filled fibBigCache at 10 and 20 and a
\* floating call filled fibCache at 5
C13_Witness ==
  /\ transformFunc = "fib(n)"
  /\ pc = "called" /\ transformCall.kind = "fn" /\ transformCall.arg = 20
  /\ transformCall.float = Ok(Num(6765))
  /\ Has(fibMemo.fibBigCache, 10) /\ ~Has(fibMemo.fibCache, 10)
  /\ Has(fibMemo.fibCache, 5)

\* d divides a
Divides(d, a) == d # 0 /\ Abs(a) % Abs(d) = 0

NthPrime(n) ==
  CHOOSE p \in 2..(n * n + 2) :
    IsPrimeNat(p) /\ Cardinality({q \in 2..p : IsPrimeNat(q)}) = n

CountPrimes(n) == Cardinality({q \in 2..n : IsPrimeNat(q)})

\* C15: the transform compiled from "prime(n)" returns the n-th prime
\* (prime(1) = 2, prime(6) = 13) and the one compiled from "pi(n)" the
\* number of primes <= n (pi(10) = 4, pi(29) = 10): pi followed by "(" is
\* the call, not the constant.
C15_PrimeAndPiBuiltins ==
  (pc = "called" /\ transformCall.kind = "fn") =>
    /\ transformFunc = "prime(n)" =>
         transformCall.float = Ok(Num(NthPrime(transformCall.arg)))
    /\ transformFunc = "pi(n)" =>
         transformCall.float = Ok(Num(CountPrimes(transformCall.arg)))

\* C16: the transform compiled from "sign(n)" returns -1 for n < 0, 0 for
\* n = 0 and 1 for n > 0.
C16_SignBuiltin ==
  (pc = "called" /\ transformCall.kind = "fn" /\ transformFunc = "sign(n)") =>
    transformCall.float = Ok(Num(Sign(transformCall.arg)))

\* 2^n by repeated doubling
RECURSIVE TwoTo(_)
TwoTo(n) == IF n = 0 THEN 1 ELSE 2 * TwoTo(n - 1)

-----------------------------------------------------------------------------
(* Scenario 6: InfiniteGraph renders again with other props while callbacks *)
(* of an earlier render are still held, and computeBigIsCoprime and         *)
(* computeBigGcdValue are called through either                             *)

\* calls and renders in one behaviour
MaxCacheSteps == 3
\* queries at (x, y), 1 <= x, y <= MaxCacheCoord
MaxCacheCoord == 2
\* row shifts 0 .. MaxCacheShift
MaxCacheShift == 1

CacheCoords == 1..MaxCacheCoord
CacheShifts == 0..MaxCacheShift

\* exact values on every argument, on even arguments only, and a custom
\* rule, for which the exact path declines
CacheConfigs == {<<"n", "">>, <<"2n", "gcd(x,y)==1">>, <<"n/2", "">>, <<"n", "x>y">>}

\* the record of a call: its number, the callback called, the props it
\* closes over, the caches it found, its arguments and its result
CacheCall(n, kind, p, before, x, y, result) ==
  [n |-> n, kind |-> kind, p |-> p, before |-> before, x |-> x, y |-> y, result |-> result]

InitCache ==
  /\ pc = "ready"
  /\ InitGraph(CacheConfigs, CacheShifts)
  /\ heldProps = props
  /\ trace = 0
  /\ pathStepLimit = 0
  /\ fibMemo = 0
  /\ backtraceLimit = 0
  /\ search = 0
  /\ pointers = 0
  /\ traced = 0

\* the parent renders InfiniteGraph with other props: the memos are
\* recomputed, the refs keep the caches; a caller may keep the callbacks it
\* holds or take the new ones
Rerender(text, rule, k, randomize, keep) ==
  /\ pc = "ready"
  /\ oracleCall.n < MaxCacheSteps
  /\ <<text, rule, k, randomize>> # <<transformFunc, moveRightExpr, rowShift, randomizeShift>>
  /\ transformFunc' = text
  /\ moveRightExpr' = rule
  /\ activeTransform' = createTransformFunction(text)
  /\ moveRightCompiled' = compileMoveRightPredicate(rule)
  /\ rowShift' = k
  /\ randomizeShift' = randomize
  /\ heldProps' = IF keep THEN heldProps ELSE props
  /\ oracleCall' = [oracleCall EXCEPT !.n = @ + 1]
  /\ UNCHANGED <<pc, predCall, transformCall, noiseSalt, trace, bigCaches, pathStepLimit,
                 fibMemo, backtraceLimit, search,
                 pointers, traced>>

\* computeBigIsCoprime(x, y) through the callback of the current render or
\* through the held one
CallIsCoprime(held, x, y) ==
  /\ pc = "ready"
  /\ oracleCall.n < MaxCacheSteps
  /\ \E p \in {IF held THEN heldProps ELSE props} :
       \E r \in {computeBigIsCoprime(p, bigCaches, x, y)} :
         /\ bigCaches' = r.caches
         /\ oracleCall' = CacheCall(oracleCall.n + 1, "isCoprime", p, bigCaches, x, y, r.result)
  /\ UNCHANGED <<pc, moveRightExpr, moveRightCompiled, predCall, transformFunc,
                 activeTransform, transformCall, rowShift, randomizeShift, noiseSalt, trace,
                 pathStepLimit, fibMemo, heldProps, backtraceLimit, search,
                 pointers, traced>>

\* computeBigGcdValue(x, y) through the callback of the current render or
\* through the held one
CallGcdValue(held, x, y) ==
  /\ pc = "ready"
  /\ oracleCall.n < MaxCacheSteps
  /\ \E p \in {IF held THEN heldProps ELSE props} :
       \E r \in {computeBigGcdValue(p, bigCaches, x, y)} :
         /\ bigCaches' = r.caches
         /\ oracleCall' = CacheCall(oracleCall.n + 1, "gcdValue", p, bigCaches, x, y, r.result)
  /\ UNCHANGED <<pc, moveRightExpr, moveRightCompiled, predCall, transformFunc,
                 activeTransform, transformCall, rowShift, randomizeShift, noiseSalt, trace,
                 pathStepLimit, fibMemo, heldProps, backtraceLimit, search,
                 pointers, traced>>

NextCache ==
  \/ \E c \in CacheConfigs, k \in CacheShifts, r \in BOOLEAN, keep \in BOOLEAN :
       Rerender(c[1], c[2], k, r, keep)
  \/ \E held \in BOOLEAN, x \in CacheCoords, y \in CacheCoords : CallIsCoprime(held, x, y)
  \/ \E held \in BOOLEAN, x \in CacheCoords, y \in CacheCoords : CallGcdValue(held, x, y)

SpecCache == InitCache /\ [][NextCache]_vars

-----------------------------------------------------------------------------
(* Properties of the BigInt caches, under SpecCache *)

\* the transform of the fingerprint in cacheKeyRef
KeyTransform == createTransformFunction(bigCaches.key[1])

\* the flag and the gcd an uncached computation gives for the gcd key
\* <<xInt, yInt>> under the fingerprint in cacheKeyRef
KeyFlag(gcdKey) ==
  IF evalBigInt(KeyTransform, gcdKey[1]).null \/ evalBigInt(KeyTransform, gcdKey[2]).null
    THEN NullFlag
  ELSE Flag(gcdBigInt(evalBigInt(KeyTransform, gcdKey[1]).v,
                      evalBigInt(KeyTransform, gcdKey[2]).v) = 1)

KeyValue(gcdKey) ==
  gcdBigInt(evalBigInt(KeyTransform, gcdKey[1]).v, evalBigInt(KeyTransform, gcdKey[2]).v)

\* what the callback called last returns on empty caches
Uncached ==
  IF oracleCall.kind = "isCoprime"
    THEN computeBigIsCoprime(oracleCall.p, NewCaches, oracleCall.x, oracleCall.y)
  ELSE computeBigGcdValue(oracleCall.p, NewCaches, oracleCall.x, oracleCall.y)

\* C18: after any interleaving of computeBigIsCoprime / computeBigGcdValue
\* calls and changes of the fingerprint, calls through held callbacks
\* included, every call returns what an uncached computation under the
\* callback's own props returns; a call that finds another fingerprint in
\* cacheKeyRef leaves only its own entries in the four tables; every entry
\* is the value under the fingerprint in cacheKeyRef, and a cached flag
\* equals (cached gcd value = 1).
C18_CachesCoherent ==
  /\ oracleCall.kind \in {"isCoprime", "gcdValue"} =>
       /\ oracleCall.result = Uncached.result
       /\ bigCaches.key = oracleCall.p.cacheKey
       /\ oracleCall.before.key # oracleCall.p.cacheKey => bigCaches = Uncached.caches
  /\ bigCaches.key # <<>> =>
       /\ \A v \in DOMAIN bigCaches.x.more : bigCaches.x.more[v] = evalBigInt(KeyTransform, v)
       /\ \A v \in DOMAIN bigCaches.y.more : bigCaches.y.more[v] = evalBigInt(KeyTransform, v)
       /\ \A g \in DOMAIN bigCaches.flag.more : bigCaches.flag.more[g] = KeyFlag(g)
       /\ \A g \in DOMAIN bigCaches.value.more :
            /\ bigCaches.value.more[g] = KeyValue(g)
            /\ TableHas(bigCaches.flag, g) =>
                 TableGet(bigCaches.flag, g) = Flag(bigCaches.value.more[g] = 1)

\* a held callback of the transform "n" answers "coprime" at (1, 2) right
\* after the current one, of the transform "2n", filled the caches for the
\* same gcd key
C18_Witness ==
  /\ oracleCall.kind = "isCoprime"
  /\ oracleCall.p = heldProps /\ heldProps.transformFunc = "n" /\ transformFunc = "2n"
  /\ oracleCall.x = 1 /\ oracleCall.y = 2
  /\ oracleCall.before.key = props.cacheKey
  /\ TableHas(oracleCall.before.flag, <<1, 2>>)
  /\ TableGet(oracleCall.before.flag, <<1, 2>>) = Flag(FALSE)
  /\ oracleCall.result = Flag(TRUE)

-----------------------------------------------------------------------------
(* src/unnamed/part_001: the earlier InfiniteGraph and its findPathToOrigin *)

\* candGoesNorth = cValY !== 0 && (cValX % cValY === 0)
candGoesNorthOf(cValX, cValY) ==
  ~NumEq(cValY, Num(0)) /\ NumEq(NumMod(cValX, cValY), Num(0))

\* cValX = Math.round(activeTransform(cand.x)) and cValY likewise; a
\* transform that throws or hangs ends the search the same way
roundedGoesNorth(fx, fy) ==
  IF fx.st # "ok" THEN [st |-> fx.st, b |-> FALSE, err |-> fx.err]
  ELSE IF fy.st # "ok" THEN [st |-> fy.st, b |-> FALSE, err |-> fy.err]
  ELSE OkB(candGoesNorthOf(NumRound(fx.v), NumRound(fy.v)))

candGoesNorth(transform, cand) ==
  roundedGoesNorth(fn(transform, Num(cand[1])), fn(transform, Num(cand[2])))

\* const maxSteps = 4000
bfsMaxSteps == 4000

\* the null that parent holds for start
NullPoint == <<>>

\* the state of the while loop: the queue, the parent map, the visited
\* set, the steps taken, the flag, and how the last oracle call ended
Bfs(q, parent, visited, steps, foundOrigin, st) ==
  [q |-> q, parent |-> parent, visited |-> visited, steps |-> steps,
   foundOrigin |-> foundOrigin, st |-> st]

\* q = [start]; parent.set(start, null); visited.add(start)
bfsStart(start) == Bfs(<<start>>, start :> NullPoint, {start}, 0, FALSE, "ok")

\* a search that connects every candidate, whatever its direction
bfsConnectEitherWay(s, curr, cand, isWest, north) ==
  IF north.st # "ok" THEN [s EXCEPT !.st = north.st]
  ELSE [s EXCEPT !.visited = @ \cup {cand}, !.parent = (cand :> curr) @@ @,
                 !.q = Append(@, cand)]

\* the west neighbour connects when it does not go north, the south one
\* when it does; a connected one is visited, given curr as parent, queued
bfsConnect(s, curr, cand, isWest, north) ==
  IF north.st # "ok" THEN [s EXCEPT !.st = north.st]
  ELSE IF north.b = isWest THEN s
  ELSE [s EXCEPT !.visited = @ \cup {cand}, !.parent = (cand :> curr) @@ @,
                 !.q = Append(@, cand)]

\* if (visited.has(key)) continue
bfsCandidate(transform, s, curr, cand, isWest) ==
  IF s.st # "ok" \/ cand \in s.visited THEN s
  ELSE bfsConnect(s, curr, cand, isWest, candGoesNorth(transform, cand))

\* the body of the loop after curr = q.shift() and steps++
bfsExpand(transform, s, curr) ==
  IF curr = <<0, 0>> THEN [s EXCEPT !.foundOrigin = TRUE]
  ELSE bfsCandidate(transform,
                    bfsCandidate(transform, s, curr, <<curr[1] - 1, curr[2]>>, TRUE),
                    curr, <<curr[1], curr[2] - 1>>, FALSE)

bfsTurn(transform, s) ==
  bfsExpand(transform, [s EXCEPT !.q = Tail(@), !.steps = @ + 1], Head(s.q))

\* the loop is over: break, q.length = 0, or steps = maxSteps
bfsDone(s) == s.st # "ok" \/ s.foundOrigin \/ s.q = <<>> \/ s.steps >= bfsMaxSteps

\* at most 2^k turns of the loop
RECURSIVE bfsRun(_, _, _)
bfsRun(transform, s, k) ==
  IF bfsDone(s) THEN s
  ELSE IF k = 0 THEN bfsTurn(transform, s)
  ELSE bfsRun(transform, bfsRun(transform, s, k - 1), k - 1)

\* while (q.length > 0 && steps < maxSteps): 2^k turns of it, then 2^(k+1),
\* until it is left
RECURSIVE bfsLoop(_, _, _)
bfsLoop(transform, s, k) ==
  IF bfsDone(s) THEN s ELSE bfsLoop(transform, bfsRun(transform, s, k), k + 1)

\* while (trace) { path.push(trace); trace = parent.get(...); if trace is
\* start, push it and break }
RECURSIVE pathFromOrigin(_, _, _, _)
pathToParent(parent, start, path, next) ==
  IF next = NullPoint THEN path
  ELSE IF next = start THEN Append(path, next)
  ELSE pathFromOrigin(parent, start, path, next)

pathFromOrigin(parent, start, path, tracePoint) ==
  pathToParent(parent, start, Append(path, tracePoint),
               IF tracePoint \in DOMAIN parent THEN parent[tracePoint] ELSE NullPoint)

\* what a search returned: which search, how it ended, its start, the
\* path, the checkGoesNorth calls it made (for findPathToOrigin, its steps),
\* and the row it took as ground
Found(kind, st, start, path, queries, groundY) ==
  [kind |-> kind, st |-> st, start |-> start, path |-> path, queries |-> queries,
   groundY |-> groundY]

NoSearch == Found("none", "ok", <<0, 0>>, <<>>, 0, 0)

\* if (!foundOrigin) return []; otherwise the path from {x: 0, y: 0}
bfsReturn(s, start) ==
  Found("origin", s.st, start,
        IF s.st = "ok" /\ s.foundOrigin
          THEN pathFromOrigin(s.parent, start, <<>>, <<0, 0>>) ELSE <<>>,
        s.steps, 0)

findPathToOrigin(transform, start) ==
  bfsReturn(bfsLoop(transform, bfsStart(start), 0), start)

-----------------------------------------------------------------------------
(* src/components/InfiniteGraph.tsx: findPathToBottommostRightmost *)

\* const maxIters = 5_000_000, in outcomeFromStartX and traceForwardToTarget
maxIters == 5000000

\* the state of one of the inner loops: the cache refs and the number of
\* checkGoesNorth calls so far, the position, stepsUsed or iters,
\* lastXAtTargetRow (<<>> for null), how the loop was left ("" while it runs),
\* the points pushed, and how the last checkGoesNorth ended
Walk(caches, currX, currY, used, lastX, out, points, queries, st) ==
  [caches |-> caches, currX |-> currX, currY |-> currY, used |-> used, lastX |-> lastX,
   out |-> out, points |-> points, queries |-> queries, st |-> st]

\* a loop starting at (x, y) after what w did to the caches
walkFrom(w, x, y) == Walk(w.caches, x, y, 0, <<>>, "", <<<<x, y>>>>, w.queries, w.st)

\* const goesNorth = checkGoesNorth(currX, currY), r being what it computed
asked(s, r) ==
  [s EXCEPT !.caches = r.caches, !.queries = @ + 1, !.st = r.result.result.st]

\* currY += 1 and the counter += 1
wentNorth(s) == [s EXCEPT !.currY = @ + 1, !.used = @ + 1]

\* currX += d and the counter += d
wentEast(s, d) == [s EXCEPT !.currX = @ + d, !.used = @ + d]

\* points.push({ x: currX, y: currY })
pushed(s) == [s EXCEPT !.points = Append(@, <<s.currX, s.currY>>)]

\* rem = ((effectiveX % p) + p) % p with p = |currY|
rowRem(p, s) == remOf(getEffectiveX(p, s.currX, s.currY), Abs(s.currY))

\* traceForwardEnd: one turn of its loop after checkGoesNorth returned
endTurn(p, s, goesNorth, stepsLimit) ==
  IF s.st # "ok" THEN s
  ELSE IF goesNorth THEN wentNorth(s)
  ELSE IF ~canJump(p, s.currY) THEN wentEast(s, 1)
  ELSE wentEast(s, jump(rowRem(p, s), Abs(s.currY), stepsLimit - s.used))

endAsk(p, s, r, stepsLimit) == endTurn(p, asked(s, r), r.result.result.b, stepsLimit)

endLeft(s, stepsLimit) == s.st # "ok" \/ s.used >= stepsLimit

\* at most 2^k turns of the loop
RECURSIVE endRun(_, _, _, _)
endRun(p, s, stepsLimit, k) ==
  IF endLeft(s, stepsLimit) THEN s
  ELSE IF k = 0
    THEN endAsk(p, s, checkGoesNorth(p, s.caches, s.currX, s.currY), stepsLimit)
  ELSE endRun(p, endRun(p, s, stepsLimit, k - 1), stepsLimit, k - 1)

\* while (stepsUsed < stepsLimit): 2^k turns of it, then 2^(k+1), until it
\* is left
RECURSIVE endLoop(_, _, _, _)
endLoop(p, s, stepsLimit, k) ==
  IF endLeft(s, stepsLimit) THEN s
  ELSE endLoop(p, endRun(p, s, stepsLimit, k), stepsLimit, k + 1)

\* stepsLimit = Math.max(0, Math.floor(maxSteps)); returns where the loop ends
traceForwardEnd(p, w, from, maxSteps) ==
  endLoop(p, walkFrom(w, from[1], from[2]), Max(0, maxSteps), 0)

\* if (currY === start.y) lastXAtTargetRow = currX
atTargetRow(s, start) ==
  IF s.currY = start[2] THEN [s EXCEPT !.lastX = <<s.currX>>] ELSE s

\* outcomeFromStartX: the four tests at the head of its loop
outcomeHead(s, start) ==
  IF s.currX = start[1] /\ s.currY = start[2] THEN [s EXCEPT !.out = "hit"]
  ELSE IF s.currY > start[2] THEN [s EXCEPT !.out = "break"]
  ELSE IF s.currX > start[1] THEN [atTargetRow(s, start) EXCEPT !.out = "tooRight"]
  ELSE atTargetRow(s, start)

\* the jump of outcomeFromStartX to nextX, which the target may cut
outcomeJump(s, start, nextX) ==
  IF s.currY = start[2] /\ start[1] > s.currX /\ start[1] <= nextX
    THEN [s EXCEPT !.out = "hit"]
  ELSE IF s.currY < start[2] /\ start[1] + 1 > s.currX /\ start[1] + 1 <= nextX
    THEN [s EXCEPT !.out = "tooRight"]
  ELSE wentEast(s, nextX - s.currX)

outcomeTurn(p, s, goesNorth, start) ==
  IF s.st # "ok" THEN s
  ELSE IF goesNorth THEN wentNorth(s)
  ELSE IF ~canJump(p, s.currY) THEN wentEast(s, 1)
  ELSE outcomeJump(s, start, s.currX + jumpUncapped(rowRem(p, s), Abs(s.currY), 0))

outcomeAsk(p, s, r, start) == outcomeTurn(p, asked(s, r), r.result.result.b, start)

outcomeBody(p, s, start) ==
  IF s.out # "" THEN s
  ELSE outcomeAsk(p, s, checkGoesNorth(p, s.caches, s.currX, s.currY), start)

outcomeLeft(s) == s.st # "ok" \/ s.out # "" \/ s.used >= maxIters

\* at most 2^k turns of the loop
RECURSIVE outcomeRun(_, _, _, _)
outcomeRun(p, s, start, k) ==
  IF outcomeLeft(s) THEN s
  ELSE IF k = 0 THEN outcomeBody(p, outcomeHead(s, start), start)
  ELSE outcomeRun(p, outcomeRun(p, s, start, k - 1), start, k - 1)

\* while (iters < maxIters): 2^k turns of it, then 2^(k+1), until it is left
RECURSIVE outcomeLoop(_, _, _, _)
outcomeLoop(p, s, start, k) ==
  IF outcomeLeft(s) THEN s
  ELSE outcomeLoop(p, outcomeRun(p, s, start, k), start, k + 1)

\* a classification that takes a trace ending left of the target for one
\* that started too far right
outcomeOfLeftAsRight(s, start) ==
  IF s.out \in {"hit", "tooRight"} THEN s.out
  ELSE IF s.lastX = <<>> THEN "tooLeft"
  ELSE IF s.lastX[1] = start[1] THEN "hit"
  ELSE "tooRight"

\* the value returned: in the loop, or after it from lastXAtTargetRow
outcomeOf(s, start) ==
  IF s.out \in {"hit", "tooRight"} THEN s.out
  ELSE IF s.lastX = <<>> THEN "tooLeft"
  ELSE IF s.lastX[1] < start[1] THEN "tooLeft"
  ELSE IF s.lastX[1] > start[1] THEN "tooRight"
  ELSE "hit"

outcomeEnd(s, start) == [s EXCEPT !.out = outcomeOf(s, start)]

outcomeFromStartX(p, w, groundY, start, startX) ==
  outcomeEnd(outcomeLoop(p, walkFrom(w, startX, groundY), start, 0), start)

\* the jump of traceForwardToTarget to nextX, which stops at the target
targetJump(s, target, nextX) ==
  IF s.currY = target[2] /\ target[1] > s.currX /\ target[1] <= nextX
    THEN [s EXCEPT !.points = Append(@, <<target[1], s.currY>>), !.out = "points"]
  ELSE pushed(wentEast(s, nextX - s.currX))

targetTurn(p, s, goesNorth, target) ==
  IF s.st # "ok" THEN s
  ELSE IF goesNorth THEN pushed(wentNorth(s))
  ELSE IF ~canJump(p, s.currY) THEN pushed(wentEast(s, 1))
  ELSE targetJump(s, target, s.currX + jumpUncapped(rowRem(p, s), Abs(s.currY), 0))

targetAsk(p, s, r, target) == targetTurn(p, asked(s, r), r.result.result.b, target)

\* if (currX === target.x && currY === target.y) return points
targetBody(p, s, target) ==
  IF s.currX = target[1] /\ s.currY = target[2] THEN [s EXCEPT !.out = "points"]
  ELSE targetAsk(p, s, checkGoesNorth(p, s.caches, s.currX, s.currY), target)

targetLeft(s, target) ==
  \/ s.st # "ok" \/ s.out # "" \/ s.used >= maxIters
  \/ s.currY > target[2] \/ s.currX > target[1] + 1

\* at most 2^k turns of the loop
RECURSIVE targetRun(_, _, _, _)
targetRun(p, s, target, k) ==
  IF targetLeft(s, target) THEN s
  ELSE IF k = 0 THEN targetBody(p, s, target)
  ELSE targetRun(p, targetRun(p, s, target, k - 1), target, k - 1)

\* while (iters < maxIters && currY <= target.y && currX <= target.x + 1):
\* 2^k turns of it, then 2^(k+1), until it is left
RECURSIVE targetLoop(_, _, _, _)
targetLoop(p, s, target, k) ==
  IF targetLeft(s, target) THEN s
  ELSE targetLoop(p, targetRun(p, s, target, k), target, k + 1)

\* returns points (out = "points") or null (out = "")
traceForwardToTarget(p, w, from, target) ==
  targetLoop(p, walkFrom(w, from[1], from[2]), target, 0)

\* the state of the two outer loops: the last inner loop, groundY, maxX,
\* minX, probeX, step, lo, hi and bestHit (<<>> for null)
Bisect(w, groundY, maxX, minX, probeX, step, lo, hi, bestHit) ==
  [w |-> w, groundY |-> groundY, maxX |-> maxX, minX |-> minX, probeX |-> probeX,
   step |-> step, lo |-> lo, hi |-> hi, bestHit |-> bestHit]

\* while (probeX > minX && outcomeFromStartX(probeX) === 'tooRight')
\*   { probeX = maxX - step; step *= 2 }
RECURSIVE probeLoop(_, _, _)
probeOn(p, start, b, w) ==
  IF w.st # "ok" \/ w.out # "tooRight" THEN [b EXCEPT !.w = w]
  ELSE probeLoop(p, start, [b EXCEPT !.w = w, !.probeX = b.maxX - b.step,
                                     !.step = 2 * b.step])

probeLoop(p, start, b) ==
  IF b.probeX <= b.minX THEN b
  ELSE probeOn(p, start, b, outcomeFromStartX(p, b.w, b.groundY, start, b.probeX))

\* lowBound = Math.max(minX, probeX); lo = lowBound; hi = maxX
lowBounded(b) == [b EXCEPT !.lo = Max(b.minX, b.probeX), !.hi = b.maxX]

\* the binary search for the greatest startX whose outcome is a hit
bisectOut(b, mid, w) ==
  IF w.st # "ok" THEN [b EXCEPT !.w = w]
  ELSE IF w.out = "tooLeft" THEN [b EXCEPT !.w = w, !.lo = mid + 1]
  ELSE IF w.out = "tooRight" THEN [b EXCEPT !.w = w, !.hi = mid - 1]
  ELSE [b EXCEPT !.w = w, !.bestHit = <<mid>>, !.lo = mid + 1]

RECURSIVE bisectLoop(_, _, _)
bisectOn(p, start, b, mid) ==
  bisectLoop(p, start,
             bisectOut(b, mid, outcomeFromStartX(p, b.w, b.groundY, start, mid)))

bisectLoop(p, start, b) ==
  IF b.w.st # "ok" \/ b.lo > b.hi THEN b
  ELSE bisectOn(p, start, b, (b.lo + b.hi) \div 2)

\* what the search leaves behind: the cache refs and what it returned
Searched(caches, found) == [caches |-> caches, found |-> found]

\* if (!forward) return [start]; return forward.slice().reverse()
forwardReturn(start, groundY, w) ==
  Searched(w.caches,
           Found("ground", w.st, start,
                 IF w.st # "ok" THEN <<>>
                 ELSE IF w.out # "points" THEN <<start>>
                 ELSE [i \in 1..Len(w.points) |-> w.points[Len(w.points) + 1 - i]],
                 w.queries, groundY))

\* if (bestHit === null) return [start]; ground = { x: bestHit, y: groundY }
bisectReturn(p, start, b) ==
  IF b.w.st # "ok" \/ b.bestHit = <<>>
    THEN Searched(b.w.caches,
                  Found("ground", b.w.st, start,
                        IF b.w.st # "ok" THEN <<>> ELSE <<start>>, b.w.queries, b.groundY))
  ELSE forwardReturn(start, b.groundY,
                     traceForwardToTarget(p, b.w, <<b.bestHit[1], b.groundY>>, start))

\* groundY = groundProbe.y + 1; if (start.y < groundY) return [start]
groundReturn(p, start, w, groundY) ==
  IF w.st # "ok" \/ start[2] < groundY
    THEN Searched(w.caches,
                  Found("ground", w.st, start, IF w.st # "ok" THEN <<>> ELSE <<start>>,
                        w.queries, groundY))
  ELSE bisectReturn(p, start,
         bisectLoop(p, start,
           lowBounded(probeLoop(p, start,
             Bisect(w, groundY, start[1], start[1] - 1000000000, start[1], 1, 0, 0,
                    <<>>)))))

groundProbed(p, start, w) == groundReturn(p, start, w, w.currY + 1)

\* if (start.y <= 1) return [start]; groundProbe = traceForwardEnd({x: 100,
\* y: 0}, 100)
findPathToBottommostRightmost(p, caches, start) ==
  IF start[2] <= 1 THEN Searched(caches, Found("ground", "ok", start, <<start>>, 0, 0))
  ELSE groundProbed(p, start,
         traceForwardEnd(p, Walk(caches, 0, 0, 0, <<>>, "", <<>>, 0, "ok"), <<100, 0>>,
                         100))

-----------------------------------------------------------------------------
(* Scenario 7: a graph is mounted and a click asks for the ancestor path *)

\* the start points are within MaxSearchCoord of the axes
MaxSearchCoord == 8
\* the row shifts of the scenario
MaxSearchShift == 2
\* the greatest backtraceLimit a caller passes
MaxBacktraceLimit == 5000

SearchShifts == 0..MaxSearchShift
BacktraceLimits == {0, MaxBacktraceLimit}

\* the points clicked
SearchStarts == (0..MaxSearchCoord) \X (0..MaxSearchCoord)

\* a jump-eligible pair of texts, three that are not, and one whose
\* transform does not return
SearchConfigs ==
  {<<"n", "">>, <<"n+1", "">>, <<"2n", "">>, <<"n", "x>y">>, <<"fact(1/0)", "">>}

InitSearch ==
  /\ pc = "idle"
  /\ InitGraph(SearchConfigs, SearchShifts)
  /\ backtraceLimit \in BacktraceLimits
  /\ search = NoSearch
  /\ pointers = 0
  /\ traced = 0
  /\ trace = 0
  /\ pathStepLimit = 0
  /\ fibMemo = 0
  /\ heldProps = 0

\* setTracedPath(findPathToBottommostRightmost(start)); a checkGoesNorth
\* that throws or hangs leaves the scenario stuck
ClickGround(start) ==
  /\ pc = "idle"
  /\ \E r \in {findPathToBottommostRightmost(props, bigCaches, start)} :
       /\ bigCaches' = r.caches
       /\ search' = r.found
       /\ pc' = IF r.found.st = "ok" THEN "searched" ELSE "stuck"
  /\ UNCHANGED <<moveRightExpr, moveRightCompiled, predCall, transformFunc, activeTransform,
                 transformCall, rowShift, randomizeShift, noiseSalt, oracleCall, trace,
                 pathStepLimit, fibMemo, heldProps, backtraceLimit,
                 pointers, traced>>

\* the earlier component: setTracedPath(findPathToOrigin(start))
ClickOrigin(start) ==
  /\ pc = "idle"
  /\ \E r \in {findPathToOrigin(activeTransform, start)} :
       /\ search' = r
       /\ pc' = IF r.st = "ok" THEN "searched" ELSE "stuck"
  /\ UNCHANGED <<moveRightExpr, moveRightCompiled, predCall, transformFunc, activeTransform,
                 transformCall, rowShift, randomizeShift, noiseSalt, oracleCall, trace,
                 bigCaches, pathStepLimit, fibMemo, heldProps, backtraceLimit,
                 pointers, traced>>

NextSearch ==
  \/ \E start \in SearchStarts : ClickGround(start)
  \/ \E start \in SearchStarts : ClickOrigin(start)

SpecSearch == InitSearch /\ [][NextSearch]_vars

-----------------------------------------------------------------------------
(* Properties of the two ancestor searches, under SpecSearch *)

\* what the oracle of the component that searched answers at (x, y)
SearchNorth(x, y) ==
  IF search.kind = "origin" THEN candGoesNorth(activeTransform, <<x, y>>).b
  ELSE GoesNorth(x, y)

Reversed(seq) == [i \in 1..Len(seq) |-> seq[Len(seq) + 1 - i]]

\* the returned path read from its ancestor end to the query point
ForwardPath ==
  IF search.path[1] = search.start THEN Reversed(search.path) ELSE search.path

\* b is one north edge from a, or a run of east edges from a on its row
RealEdges(a, b) ==
  \/ b = <<a[1], a[2] + 1>> /\ SearchNorth(a[1], a[2])
  \/ b[2] = a[2] /\ b[1] > a[1] /\ \A x \in a[1]..(b[1] - 1) : ~SearchNorth(x, a[2])

\* following the oracle from the point from, one edge at a time, meets to
RECURSIVE Passes(_, _)
Passes(from, to) ==
  IF from = to THEN TRUE
  ELSE IF from[1] > to[1] \/ from[2] > to[2] THEN FALSE
  ELSE IF SearchNorth(from[1], from[2]) THEN Passes(<<from[1], from[2] + 1>>, to)
  ELSE Passes(<<from[1] + 1, from[2]>>, to)

\* C11: whenever findPathToOrigin or findPathToBottommostRightmost returns
\* a path of more than one point from a point P, P is one end of it, the
\* oracle followed from the other end passes through P, and every two
\* consecutive points of the path are joined by a north edge or by a run of
\* east edges on one row.
C11_SearchRoundTrip ==
  (pc = "searched" /\ Len(search.path) > 1) =>
    /\ ForwardPath[Len(ForwardPath)] = search.start
    /\ ForwardPath[1] # search.start
    /\ Passes(ForwardPath[1], search.start)
    /\ \A i \in 1..(Len(ForwardPath) - 1) : RealEdges(ForwardPath[i], ForwardPath[i + 1])

\* findPathToBottommostRightmost has returned a path with a north edge and
\* a run of more than one east edge, in a shifted graph
C11_Witness ==
  /\ pc = "searched"
  /\ search.kind = "ground"
  /\ rowShift # 0
  /\ Len(search.path) > 2
  /\ \E i \in 1..(Len(ForwardPath) - 1) : ForwardPath[i + 1][1] > ForwardPath[i][1] + 1
  /\ \E i \in 1..(Len(ForwardPath) - 1) : ForwardPath[i + 1][2] = ForwardPath[i][2] + 1

\* C12: every non-empty path returned by findPathToBottommostRightmost or
\* by findPathToOrigin has the query point at index 0.
C12_QueryPointFirst ==
  (pc = "searched" /\ search.path # <<>>) => search.path[1] = search.start

\* C19: findPathToBottommostRightmost terminates for every start, and the
\* number of checkGoesNorth calls it makes for one query is at most the
\* backtraceLimit passed by the caller.
C19_SearchWithinBacktraceLimit ==
  (pc \in {"searched", "stuck"} /\ search.kind = "ground") =>
    /\ pc # "stuck"
    /\ search.queries <= backtraceLimit

\* the last point of the returned path, the ground end of the search
GroundEnd == search.path[Len(search.path)]

\* C22: when findPathToBottommostRightmost returns a path of more than one
\* point, its last point is (bestX, groundY), bestX being the least starting
\* x on the ground row whose forward trace passes through the target.
C22_GroundEndIsMinimalStart ==
  (pc = "searched" /\ search.kind = "ground" /\ Len(search.path) > 1) =>
    /\ GroundEnd[2] = search.groundY
    /\ Passes(GroundEnd, search.start)
    /\ \A x \in (GroundEnd[1] - MaxSearchCoord)..(GroundEnd[1] - 1) :
         ~Passes(<<x, search.groundY>>, search.start)

\* C23: when findPathToOrigin runs out of steps or of frontier before it
\* reaches the origin, it still returns a path, which starts at the query
\* point.
C23_BfsReturnsBestSoFar ==
  (pc = "searched" /\ search.kind = "origin") =>
    /\ search.path # <<>>
    /\ search.start \in {search.path[i] : i \in 1..Len(search.path)}

\* the order tooLeft < hit < tooRight
OutcomeRank(out) == IF out = "tooLeft" THEN 0 ELSE IF out = "hit" THEN 1 ELSE 2

\* outcomeFromStartX(x) for the target and the ground row of the search made
OutcomeAt(x) ==
  OutcomeRank(outcomeFromStartX(props, Walk(NewCaches, 0, 0, 0, <<>>, "", <<>>, 0, "ok"),
                                search.groundY, search.start, x).out)

\* the starting positions compared: from MaxSearchCoord to the left of the
\* target to one to its right
OutcomeWindow == (search.start[1] - MaxSearchCoord)..(search.start[1] + 1)

\* the binary search of findPathToBottommostRightmost has run
BinarySearched ==
  /\ pc = "searched"
  /\ search.kind = "ground"
  /\ search.start[2] > 1
  /\ search.start[2] >= search.groundY

\* C21: in a jump-eligible configuration, shifted or not, for the target
\* and the ground row of a search, outcomeFromStartX is monotone in the
\* starting x under tooLeft < hit < tooRight: the starting positions that
\* hit form one interval.
C21_OutcomeMonotone ==
  (BinarySearched /\ props.canFastForward) =>
    \A x1 \in OutcomeWindow, x2 \in OutcomeWindow :
      x1 < x2 => OutcomeAt(x1) <= OutcomeAt(x2)

\* a search in a shifted jump-eligible graph among whose starting positions
\* all three outcomes occur, two of them hits
C21_Witness ==
  /\ BinarySearched
  /\ props.canFastForward
  /\ rowShift # 0
  /\ \E x \in OutcomeWindow : OutcomeAt(x) = 0
  /\ \E x \in OutcomeWindow : OutcomeAt(x) = 1 /\ OutcomeAt(x - 1) = 1
  /\ \E x \in OutcomeWindow : OutcomeAt(x) = 2

-----------------------------------------------------------------------------
(* Jump eligibility, under SpecTrace *)

\* C25: canFastForward is true exactly when the rule is the default
\* coprimality rule and the transform text is blank, "n" or "x" up to case
\* and surrounding whitespace; and then the transform returns its argument
\* at every integer.
C25_JumpEligibleIffIdentityAndDefault ==
  /\ props.canFastForward <=>
       /\ isDefaultCoprimeRule(moveRightCompiled)
       /\ toLowerCase(trim(transformFunc)) \in {"", "n", "x"}
  /\ props.canFastForward =>
       \A v \in Coords : fn(activeTransform, Num(v)) = Ok(Num(v))

-----------------------------------------------------------------------------
(* Comparisons and number literals of the move rule, under SpecPredicate *)

\* comparisons of two valid numeric expressions, two of which begin with an
\* opening parenthesis
Comparisons == {"(x+y)>1", "(x)==1", "x<(y+1)", "x^2>y"}

\* what the comparison text says of the integers x, y
ComparisonHolds(text, x, y) ==
  IF text = "(x+y)>1" THEN x + y > 1
  ELSE IF text = "(x)==1" THEN x = 1
  ELSE IF text = "x<(y+1)" THEN x < y + 1
  ELSE x * x > y

\* C26: a comparison L op R of two valid numeric expressions compiles with
\* an empty error and evaluates to the comparison of the two values, also
\* when L begins with an opening parenthesis.
C26_ComparisonsCompile ==
  (pc # "compile" /\ moveRightExpr \in Comparisons) =>
    /\ moveRightCompiled.error = ""
    /\ pc = "called" =>
         predCall.result = OkB(ComparisonHolds(moveRightExpr, predCall.x, predCall.y))

\* characters i..j of text are a maximal run of digits and dots
IsNumberRun(text, i, j) ==
  /\ \A k \in i..j : Ch(text, k) \in NumberChars
  /\ i = 1 \/ Ch(text, i - 1) \notin NumberChars
  /\ j = Len(text) \/ Ch(text, j + 1) \notin NumberChars

\* the run has more than one dot, or no digit
Malformed(text, i, j) ==
  \/ Cardinality({k \in i..j : Ch(text, k) = "."}) > 1
  \/ \A k \in i..j : Ch(text, k) = "."

HasMalformedLiteral(text) ==
  \E i \in 1..Len(text), j \in 1..Len(text) :
    i <= j /\ IsNumberRun(text, i, j) /\ Malformed(text, i, j)

\* C27: a rule with a maximal run of digits and dots that is not a
\* well-formed decimal number (more than one dot, or no digit) compiles to
\* a non-empty error.
C27_MalformedLiteralRejected ==
  (pc # "compile" /\ HasMalformedLiteral(SourceText(moveRightExpr))) =>
    moveRightCompiled.error # ""


-----------------------------------------------------------------------------
(* The exact evaluator, under SpecTransform *)

\* texts holding a literal that is not an integer
NonIntegerLiteralTexts == {"1.5n", "1.2.3", "pi", "e"}

\* texts calling a function other than fib
OtherFunctionTexts ==
  {"fact(n)", "fact(1/0)", "fact(1/n)", "fact(0/0)", "sqrt(n)", "abs(n)", "floor(n/2)",
   "ceil(n/2)", "round(n/2)", "sin(n)", "cos(n)", "tan(n)", "log(n)", "exp(n)"}

\* the arguments at which the expression has an integer value over
\* +, -, *, exact /, ^ with an exponent in 0..4096, and fib
HasExactValue(text, x) ==
  IF text \in {"n", "x", "N", " n ", "2x+1", "2 x + 1", "n(n+1)/2", "n-1", "-n", "--n",
               "n*n", "n^2", "fib(n)", "fib(fib(n))", "2(n)", "1^4096",
               "9007199254740992", "9007199254740993", "9007199254740995"} THEN TRUE
  ELSE IF text \in {"2^n", "n^n"} THEN x >= 0
  ELSE IF text = "n/2" THEN x % 2 = 0
  ELSE IF text = "1/n" THEN x \in {-1, 1}
  ELSE IF text = "6/n" THEN x # 0 /\ 6 % Abs(x) = 0
  ELSE IF text = "fib(1/(n-1))" THEN x \in {0, 2}
  ELSE FALSE

\* that value, written out by hand
ExactValue(text, x) ==
  IF text \in {"n", "x", "N", " n ", "--n"} THEN x
  ELSE IF text \in {"2x+1", "2 x + 1"} THEN 2 * x + 1
  ELSE IF text = "n(n+1)/2" THEN (x * (x + 1)) \div 2
  ELSE IF text = "n-1" THEN x - 1
  ELSE IF text = "-n" THEN 0 - x
  ELSE IF text \in {"n*n", "n^2"} THEN x * x
  ELSE IF text = "fib(n)" THEN Fibonacci(Abs(x))
  ELSE IF text = "fib(fib(n))" THEN Fibonacci(Fibonacci(Abs(x)))
  ELSE IF text = "2(n)" THEN 2 * x
  ELSE IF text = "1^4096" THEN 1
  ELSE IF text = "9007199254740992" THEN <<90071992, 54740992>>
  ELSE IF text = "9007199254740993" THEN <<90071992, 54740993>>
  ELSE IF text = "9007199254740995" THEN <<90071992, 54740995>>
  ELSE IF text = "2^n" THEN IntPow(2, x)
  ELSE IF text = "n^n" THEN IntPow(x, x)
  ELSE IF text = "n/2" THEN x \div 2
  ELSE IF text = "1/n" THEN x
  ELSE IF text = "6/n" THEN Sign(x) * (6 \div Abs(x))
  ELSE 1

\* C24: evalBigInt is absent when the text holds a non-integer literal or a
\* function other than fib; it returns null where the expression divides by
\* zero or inexactly or raises to an exponent below 0 or above 4096; and a
\* value it returns is the exact integer value of the expression.
C24_ExactOrDeclines ==
  /\ (pc # "compile" /\ transformFunc \in NonIntegerLiteralTexts \cup OtherFunctionTexts) =>
       ~activeTransform.hasEvalBigInt
  /\ (pc = "called" /\ transformCall.kind = "evalBigInt") =>
       /\ ~HasExactValue(transformFunc, transformCall.arg) => transformCall.big.null
       /\ ~transformCall.big.null =>
            transformCall.big.v = ExactValue(transformFunc, transformCall.arg)


-----------------------------------------------------------------------------
(* Scenario 8: computeBigIsCoprime and computeBigGcdValue are called when a *)
(* table is at its limit or one entry short of it                           *)

\* rows of the rectangles of points queried before the scenario starts
SweepRows == 500

\* the caches after one call at every point of (1..w) \X (1..h), of
\* computeBigGcdValue when values and of computeBigIsCoprime otherwise,
\* under props p with a transform that has an exact value everywhere and
\* with no row shift: no table was cleared on the way when w, h and w * h
\* are within the limits
sweptCaches(p, w, h, values) ==
  Caches(p.cacheKey,
         Table(Base("x", w, h, p.transformFunc), <<>>),
         Table(Base("y", w, h, p.transformFunc), <<>>),
         Table(Base("flag", w, h, p.transformFunc), <<>>),
         IF values THEN Table(Base("value", w, h, p.transformFunc), <<>>) ELSE EmptyTable)

\* rectangles that fill the flag table, the value table, the x table and
\* the y table, and one that leaves the x table one entry short
FullSweeps ==
  {<<BIGINT_GCD_FLAG_CACHE_LIMIT \div SweepRows, SweepRows, FALSE>>,
   <<BIGINT_GCD_VALUE_CACHE_LIMIT \div SweepRows, SweepRows, TRUE>>,
   <<BIGINT_X_CACHE_LIMIT, 1, FALSE>>,
   <<1, BIGINT_Y_CACHE_LIMIT, FALSE>>,
   <<BIGINT_X_CACHE_LIMIT - 1, 1, FALSE>>}

\* transforms with an exact value at every integer
FullTexts == {"n", "2n"}

\* points inside every rectangle, and points outside all of them
FullQueries ==
  {<<1, 1>>, <<2, 2>>, <<BIGINT_X_CACHE_LIMIT + 1, 1>>, <<BIGINT_X_CACHE_LIMIT + 2, 1>>,
   <<1, BIGINT_Y_CACHE_LIMIT + 1>>}

InitFullCache ==
  /\ pc = "ready"
  /\ transformFunc \in FullTexts
  /\ moveRightExpr = ""
  /\ activeTransform = createTransformFunction(transformFunc)
  /\ moveRightCompiled = compileMoveRightPredicate(moveRightExpr)
  /\ rowShift = 0
  /\ randomizeShift = FALSE
  /\ noiseSalt = 0
  /\ \E s \in FullSweeps : bigCaches = sweptCaches(props, s[1], s[2], s[3])
  /\ predCall = NoPredCall
  /\ transformCall = NoTransformCall
  /\ oracleCall = NoOracleCall
  /\ heldProps = props
  /\ trace = 0
  /\ pathStepLimit = 0
  /\ fibMemo = 0
  /\ backtraceLimit = 0
  /\ search = 0
  /\ pointers = 0
  /\ traced = 0

NextFullCache ==
  \/ \E held \in BOOLEAN, q \in FullQueries : CallIsCoprime(held, q[1], q[2])
  \/ \E held \in BOOLEAN, q \in FullQueries : CallGcdValue(held, q[1], q[2])

SpecFullCache == InitFullCache /\ [][NextFullCache]_vars

-----------------------------------------------------------------------------
(* Properties of full tables, under SpecFullCache *)

\* C28: no table ever holds more entries than its limit, and every call,
\* before or after a full table was cleared, returns what it returns on
\* empty tables.
C28_CachesBounded ==
  /\ TableSize(bigCaches.flag) <= BIGINT_GCD_FLAG_CACHE_LIMIT
  /\ TableSize(bigCaches.value) <= BIGINT_GCD_VALUE_CACHE_LIMIT
  /\ TableSize(bigCaches.x) <= BIGINT_X_CACHE_LIMIT
  /\ TableSize(bigCaches.y) <= BIGINT_Y_CACHE_LIMIT
  /\ oracleCall.n > 0 => oracleCall.result = Uncached.result

\* the flag table was filled by the sweep and cleared by an earlier call,
\* and computeBigIsCoprime(1, 1), whose flag went with it, returns true
C28_Witness ==
  /\ transformFunc = "n"
  /\ oracleCall.kind = "isCoprime" /\ oracleCall.x = 1 /\ oracleCall.y = 1
  /\ BaseSize(oracleCall.before.x.base) * SweepRows = BIGINT_GCD_FLAG_CACHE_LIMIT
  /\ TableSize(oracleCall.before.flag) = 1
  /\ ~TableHas(oracleCall.before.flag, <<1, 1>>)
  /\ TableSize(bigCaches.flag) = 2
  /\ oracleCall.result = Flag(TRUE)


-----------------------------------------------------------------------------
(* src/components/InfiniteGraph.tsx: the pointer handlers, the context menu *)
(* and the effects on tracedPath                                            *)

\* evCache is a Map in insertion order: a sequence of {id, x, y}
CacheEntry(id, pos) == [id |-> id, x |-> pos[1], y |-> pos[2]]
cacheHas(ev, id) == \E i \in 1..Len(ev) : ev[i].id = id
cacheSet(ev, id, pos) ==
  IF cacheHas(ev, id)
    THEN [i \in 1..Len(ev) |-> IF ev[i].id = id THEN CacheEntry(id, pos) ELSE ev[i]]
  ELSE Append(ev, CacheEntry(id, pos))
cacheDelete(ev, id) == SelectSeq(ev, LAMBDA entry : entry.id # id)

\* the square of Math.hypot(dx, dy); prevPinchDiff holds the square of the
\* distance of the two pointers, or -1
hypotSquared(dx, dy) == dx * dx + dy * dy

\* refs and state of the pointer handlers; toggled is the argument of the
\* call of onTogglePathStart the last handler made, NullPoint when it made
\* none
Pointers(evCache, isPinching, prevPinchDiff, isDragging, lastPos, dragStartPos, toggled) ==
  [evCache |-> evCache, isPinching |-> isPinching, prevPinchDiff |-> prevPinchDiff,
   isDragging |-> isDragging, lastPos |-> lastPos, dragStartPos |-> dragStartPos,
   toggled |-> toggled]

NoPointers == Pointers(<<>>, FALSE, -1, FALSE, <<0, 0>>, <<0, 0>>, NullPoint)

\* tracedAnchor.current and tracedPath; event is the last right click: the
\* point clicked and the anchor it found
NullPath == [null |-> TRUE, points |-> <<>>]
Path(points) == [null |-> FALSE, points |-> points]
NoEvent == [kind |-> "none", point |-> NullPoint, anchor |-> NullPoint]
Traced(anchor, path, event) == [anchor |-> anchor, path |-> path, event |-> event]
NoTraced == Traced(NullPoint, NullPath, NoEvent)

\* getBoundingClientRect() of the canvas
CanvasRect == [left |-> 0, top |-> 0, width |-> 200, height |-> 200]

\* gx = Math.round((x - halfWidth) / zoom + centerX),
\* gy = Math.round(-((y - halfHeight) / zoom - centerY))
graphX(pos, viewport) ==
  NumRound(NumAdd(NumDiv(Num(2 * (pos[1] - CanvasRect.left) - CanvasRect.width),
                         Num(2 * viewport.zoom)),
                  Num(viewport.x))).n

graphY(pos, viewport) ==
  NumRound(NumNeg(NumSub(NumDiv(Num(2 * (pos[2] - CanvasRect.top) - CanvasRect.height),
                                Num(2 * viewport.zoom)),
                         Num(viewport.y)))).n

graphPoint(pos, viewport) == <<graphX(pos, viewport), graphY(pos, viewport)>>

\* the two branches on evCache.current.size of handlePointerDown
downOnCache(s, pos, ev) ==
  IF Len(ev) = 1
    THEN Pointers(ev, FALSE, s.prevPinchDiff, TRUE, pos, pos, NullPoint)
  ELSE IF Len(ev) = 2
    THEN Pointers(ev, TRUE, hypotSquared(ev[1].x - ev[2].x, ev[1].y - ev[2].y), FALSE,
                  s.lastPos, s.dragStartPos, NullPoint)
  ELSE [s EXCEPT !.evCache = ev, !.toggled = NullPoint]

handlePointerDown(s, id, pointerType, button, pos) ==
  IF pointerType = "mouse" /\ button # 0 THEN [s EXCEPT !.toggled = NullPoint]
  ELSE downOnCache(s, pos, cacheSet(s.evCache, id, pos))

\* step 3 of handlePointerMove on the updated cache: a pinch updates
\* prevPinchDiff when it is positive, a drag updates lastPos
moveOnCache(s, pos, ev) ==
  IF Len(ev) = 2
    THEN [s EXCEPT !.evCache = ev, !.toggled = NullPoint,
                   !.prevPinchDiff =
                     IF @ > 0 THEN hypotSquared(ev[1].x - ev[2].x, ev[1].y - ev[2].y) ELSE @]
  ELSE IF Len(ev) = 1 /\ s.isDragging
    THEN [s EXCEPT !.evCache = ev, !.toggled = NullPoint, !.lastPos = pos]
  ELSE [s EXCEPT !.evCache = ev, !.toggled = NullPoint]

handlePointerMove(s, id, pos) ==
  moveOnCache(s, pos, IF cacheHas(s.evCache, id) THEN cacheSet(s.evCache, id, pos) ELSE s.evCache)

\* the last branches of handlePointerUp and handlePointerLeave, on the
\* cache after the delete
afterDelete(s, ev) ==
  IF Len(ev) = 1
    THEN [s EXCEPT !.evCache = ev, !.lastPos = <<ev[1].x, ev[1].y>>, !.isDragging = TRUE,
                   !.isPinching = FALSE]
  ELSE IF Len(ev) = 0
    THEN [s EXCEPT !.evCache = ev, !.isDragging = FALSE, !.isPinching = FALSE]
  ELSE [s EXCEPT !.evCache = ev]

\* the tap test of handlePointerUp
isTap(s, id, pointerType, button, pos) ==
  /\ Len(s.evCache) = 1 /\ cacheHas(s.evCache, id)
  /\ ~s.isPinching
  /\ (pointerType # "mouse" \/ button = 0)
  /\ hypotSquared(pos[1] - s.dragStartPos[1], pos[2] - s.dragStartPos[2]) < 10 * 10

\* the tap is on the anchor of a visible backtrace
tapOnAnchor(t, clicked) ==
  /\ ~t.path.null /\ Len(t.path.points) > 0
  /\ t.anchor # NullPoint /\ t.anchor = clicked

\* the argument of onTogglePathStart
toggleTarget(t, clicked) ==
  IF tapOnAnchor(t, clicked) THEN t.path.points[Len(t.path.points)] ELSE clicked

\* the cleanup of handlePointerUp
upCleanup(s, ev) ==
  afterDelete([s EXCEPT !.prevPinchDiff = IF Len(ev) < 2 THEN -1 ELSE @], ev)

\* handlePointerUp: the pointer refs after it
pointersAfterUp(s, t, id, pointerType, button, pos, viewport) ==
  upCleanup([s EXCEPT !.toggled = IF isTap(s, id, pointerType, button, pos)
                                    THEN toggleTarget(t, graphPoint(pos, viewport))
                                    ELSE NullPoint],
            cacheDelete(s.evCache, id))

\* handlePointerUp without its setTracedPath(null)
tracedAfterUpKeepsPath(s, t, id, pointerType, button, pos, viewport) ==
  IF isTap(s, id, pointerType, button, pos) /\ tapOnAnchor(t, graphPoint(pos, viewport))
    THEN Traced(NullPoint, t.path, NoEvent)
  ELSE [t EXCEPT !.event = NoEvent]

\* handlePointerUp: tracedAnchor and tracedPath after it
tracedAfterUp(s, t, id, pointerType, button, pos, viewport) ==
  IF isTap(s, id, pointerType, button, pos) /\ tapOnAnchor(t, graphPoint(pos, viewport))
    THEN Traced(NullPoint, NullPath, NoEvent)
  ELSE [t EXCEPT !.event = NoEvent]

handlePointerLeave(s, id) ==
  afterDelete([s EXCEPT !.toggled = NullPoint], cacheDelete(s.evCache, id))

\* handleContextMenu at the graph point clicked: [caches, traced, st]
contextMenuOn(t, clicked, r) ==
  [caches |-> r.caches, st |-> r.found.st,
   traced |-> IF r.found.st # "ok" THEN t
              ELSE Traced(clicked, Path(r.found.path),
                          [kind |-> "contextmenu", point |-> clicked, anchor |-> t.anchor])]

handleContextMenu(p, caches, t, clicked) ==
  IF t.anchor # NullPoint /\ t.anchor = clicked
    THEN [caches |-> caches, st |-> "ok",
          traced |-> Traced(NullPoint, NullPath,
                            [kind |-> "contextmenu", point |-> clicked, anchor |-> t.anchor])]
  ELSE contextMenuOn(t, clicked, findPathToBottommostRightmost(p, caches, clicked))

\* the effect on [findPathToBottommostRightmost, moveRightPredicate,
\* transformFunc, rowShift, randomizeShift]: [caches, traced, st]
recomputeOn(t, r) ==
  [caches |-> r.caches, st |-> r.found.st,
   traced |-> IF r.found.st # "ok" THEN [t EXCEPT !.event = NoEvent]
              ELSE Traced(t.anchor, Path(r.found.path), NoEvent)]

recomputeEffect(p, caches, t) ==
  IF t.anchor = NullPoint
    THEN [caches |-> caches, st |-> "ok", traced |-> Traced(NullPoint, NullPath, NoEvent)]
  ELSE recomputeOn(t, findPathToBottommostRightmost(p, caches, t.anchor))

-----------------------------------------------------------------------------
(* Scenario 9: pointers go down, move, lift and leave on a mounted graph    *)

\* pointer ids: 1 is the mouse, the others are touches
MaxPointerId == 3
PointerIds == 1..MaxPointerId
pointerTypeOf(id) == IF id = 1 THEN "mouse" ELSE "touch"
\* e.button of a mouse event: left or right
ButtonsOf(id) == IF id = 1 THEN {0, 2} ELSE {0}

\* client positions where pointers go down and move to, far from each
\* other, and where they lift: one more, within 10 px of the first
GesturePositions == {<<100, 100>>, <<160, 100>>}
LiftPositions == GesturePositions \cup {<<104, 100>>}

\* the viewport the parent passes: the positions are the graph points
\* (2, 3), (5, 3) and again (2, 3)
Viewports == {[x |-> 2, y |-> 3, zoom |-> 20]}

MaxGestureShift == 1
GestureShifts == 0..MaxGestureShift
GestureConfigs == {<<"n", "">>, <<"2n", "">>, <<"n", "x>y">>}

\* multi: two pointers have been down at a time since evCache was last empty
Gesture(s, multi) == [s |-> s, multi |-> multi]

\* the graph is mounted, and a right click may have set a backtrace
InitGesture ==
  /\ pc = "idle"
  /\ \E c \in GestureConfigs : transformFunc = c[1] /\ moveRightExpr = c[2]
  /\ activeTransform = createTransformFunction(transformFunc)
  /\ moveRightCompiled = compileMoveRightPredicate(moveRightExpr)
  /\ rowShift \in GestureShifts
  /\ randomizeShift = FALSE
  /\ noiseSalt = 0
  /\ \E r \in {[caches |-> NewCaches, traced |-> NoTraced, st |-> "ok"]} \cup
               {handleContextMenu(props, NewCaches, NoTraced, graphPoint(pos, viewport)) :
                  pos \in GesturePositions, viewport \in Viewports} :
       /\ bigCaches = r.caches
       /\ traced = [r.traced EXCEPT !.event = NoEvent]
  /\ pointers = Gesture(NoPointers, FALSE)
  /\ predCall = NoPredCall
  /\ transformCall = NoTransformCall
  /\ oracleCall = NoOracleCall
  /\ backtraceLimit = 0
  /\ search = 0
  /\ trace = 0
  /\ pathStepLimit = 0
  /\ fibMemo = 0
  /\ heldProps = 0

PointerDown(id, button, pos) ==
  /\ pc = "idle"
  /\ ~cacheHas(pointers.s.evCache, id)
  /\ \E s \in {handlePointerDown(pointers.s, id, pointerTypeOf(id), button, pos)} :
       pointers' = Gesture(s, IF Len(pointers.s.evCache) = 0 THEN FALSE
                              ELSE pointers.multi \/ Len(s.evCache) >= 2)
  /\ traced' = [traced EXCEPT !.event = NoEvent]
  /\ UNCHANGED <<pc, moveRightExpr, moveRightCompiled, predCall, transformFunc, activeTransform,
                 transformCall, rowShift, randomizeShift, noiseSalt, oracleCall, trace,
                 bigCaches, pathStepLimit, fibMemo, heldProps, backtraceLimit, search>>

PointerMove(id, pos) ==
  /\ pc = "idle"
  /\ pointers' = Gesture(handlePointerMove(pointers.s, id, pos), pointers.multi)
  /\ traced' = [traced EXCEPT !.event = NoEvent]
  /\ UNCHANGED <<pc, moveRightExpr, moveRightCompiled, predCall, transformFunc, activeTransform,
                 transformCall, rowShift, randomizeShift, noiseSalt, oracleCall, trace,
                 bigCaches, pathStepLimit, fibMemo, heldProps, backtraceLimit, search>>

PointerUp(id, button, pos, viewport) ==
  /\ pc = "idle"
  /\ pointers' = Gesture(pointersAfterUp(pointers.s, traced, id, pointerTypeOf(id), button, pos,
                                         viewport),
                         pointers.multi)
  /\ traced' = tracedAfterUp(pointers.s, traced, id, pointerTypeOf(id), button, pos, viewport)
  /\ UNCHANGED <<pc, moveRightExpr, moveRightCompiled, predCall, transformFunc, activeTransform,
                 transformCall, rowShift, randomizeShift, noiseSalt, oracleCall, trace,
                 bigCaches, pathStepLimit, fibMemo, heldProps, backtraceLimit, search>>

PointerLeave(id) ==
  /\ pc = "idle"
  /\ pointers' = Gesture(handlePointerLeave(pointers.s, id), pointers.multi)
  /\ traced' = [traced EXCEPT !.event = NoEvent]
  /\ UNCHANGED <<pc, moveRightExpr, moveRightCompiled, predCall, transformFunc, activeTransform,
                 transformCall, rowShift, randomizeShift, noiseSalt, oracleCall, trace,
                 bigCaches, pathStepLimit, fibMemo, heldProps, backtraceLimit, search>>

ContextMenu(pos, viewport) ==
  /\ pc = "idle"
  /\ \E r \in {handleContextMenu(props, bigCaches, traced, graphPoint(pos, viewport))} :
       /\ bigCaches' = r.caches
       /\ traced' = r.traced
       /\ pc' = IF r.st = "ok" THEN "idle" ELSE "stuck"
  /\ pointers' = [pointers EXCEPT !.s.toggled = NullPoint]
  /\ UNCHANGED <<moveRightExpr, moveRightCompiled, predCall, transformFunc, activeTransform,
                 transformCall, rowShift, randomizeShift, noiseSalt, oracleCall, trace,
                 pathStepLimit, fibMemo, heldProps, backtraceLimit, search>>

\* the parent changes resetPathsSignal: the reset effect runs
ResetPaths ==
  /\ pc = "idle"
  /\ traced' = Traced(NullPoint, NullPath, NoEvent)
  /\ pointers' = [pointers EXCEPT !.s.toggled = NullPoint]
  /\ UNCHANGED <<pc, moveRightExpr, moveRightCompiled, predCall, transformFunc, activeTransform,
                 transformCall, rowShift, randomizeShift, noiseSalt, oracleCall, trace,
                 bigCaches, pathStepLimit, fibMemo, heldProps, backtraceLimit, search>>

\* the parent changes the transform, the rule or the row shift: the memos
\* are recomputed and the recompute effect runs
ChangeProps(text, rule, k) ==
  /\ pc = "idle"
  /\ <<text, rule, k>> # <<transformFunc, moveRightExpr, rowShift>>
  /\ transformFunc' = text
  /\ moveRightExpr' = rule
  /\ rowShift' = k
  /\ activeTransform' = createTransformFunction(text)
  /\ moveRightCompiled' = compileMoveRightPredicate(rule)
  /\ \E r \in {recomputeEffect(
                 GraphProps(text, createTransformFunction(text),
                            compileMoveRightPredicate(rule), k, randomizeShift, noiseSalt),
                 bigCaches, traced)} :
       /\ bigCaches' = r.caches
       /\ traced' = r.traced
       /\ pc' = IF r.st = "ok" THEN "idle" ELSE "stuck"
  /\ pointers' = [pointers EXCEPT !.s.toggled = NullPoint]
  /\ UNCHANGED <<predCall, transformCall, randomizeShift, noiseSalt, oracleCall, trace,
                 pathStepLimit, fibMemo, heldProps, backtraceLimit, search>>

NextGesture ==
  \/ \E id \in PointerIds, pos \in GesturePositions :
       \E button \in ButtonsOf(id) : PointerDown(id, button, pos)
  \/ \E id \in PointerIds, pos \in GesturePositions : PointerMove(id, pos)
  \/ \E id \in PointerIds, pos \in LiftPositions, viewport \in Viewports :
       \E button \in ButtonsOf(id) : PointerUp(id, button, pos, viewport)
  \/ \E id \in PointerIds : PointerLeave(id)

SpecGesture == InitGesture /\ [][NextGesture]_vars

-----------------------------------------------------------------------------
(* Scenario 10: one finger taps on a mounted graph, right clicks ask for a  *)
(* backtrace, and the parent resets the paths and changes the rule, the     *)
(* transform and the row shift                                              *)

\* the pointer that taps
TapPointer == 2

InitBacktrace ==
  /\ pc = "idle"
  /\ \E c \in GestureConfigs : transformFunc = c[1] /\ moveRightExpr = c[2]
  /\ activeTransform = createTransformFunction(transformFunc)
  /\ moveRightCompiled = compileMoveRightPredicate(moveRightExpr)
  /\ rowShift \in GestureShifts
  /\ randomizeShift = FALSE
  /\ noiseSalt = 0
  /\ bigCaches = NewCaches
  /\ predCall = NoPredCall
  /\ transformCall = NoTransformCall
  /\ oracleCall = NoOracleCall
  /\ pointers = Gesture(NoPointers, FALSE)
  /\ traced = NoTraced
  /\ backtraceLimit = 0
  /\ search = 0
  /\ trace = 0
  /\ pathStepLimit = 0
  /\ fibMemo = 0
  /\ heldProps = 0

NextBacktrace ==
  \/ \E pos \in GesturePositions : PointerDown(TapPointer, 0, pos)
  \/ \E pos \in GesturePositions : PointerMove(TapPointer, pos)
  \/ \E pos \in LiftPositions, viewport \in Viewports : PointerUp(TapPointer, 0, pos, viewport)
  \/ PointerLeave(TapPointer)
  \/ \E pos \in GesturePositions, viewport \in Viewports : ContextMenu(pos, viewport)
  \/ ResetPaths
  \/ \E c \in GestureConfigs, k \in GestureShifts : ChangeProps(c[1], c[2], k)

SpecBacktrace == InitBacktrace /\ [][NextBacktrace]_vars

-----------------------------------------------------------------------------
(* Properties of the gestures, under SpecGesture, and of the backtrace,     *)
(* under SpecBacktrace                                                      *)

\* C29: handlePointerUp calls onTogglePathStart only at the end of a
\* gesture during which no two pointers were down at a time.
C29_PinchNeverTaps ==
  pointers.s.toggled # NullPoint => ~pointers.multi

\* C30: tracedPath is null whenever tracedAnchor is null; a tracedPath that
\* is not null is not empty and starts at tracedAnchor; a right click on
\* the anchor clears both and a right click elsewhere sets both.
C30_BacktraceConsistent ==
  /\ traced.anchor = NullPoint => traced.path.null
  /\ ~traced.path.null =>
       /\ Len(traced.path.points) > 0
       /\ traced.path.points[1] = traced.anchor
  /\ (traced.event.kind = "contextmenu" /\ pc = "idle") =>
       IF traced.event.point = traced.event.anchor
         THEN traced.anchor = NullPoint /\ traced.path.null
       ELSE traced.anchor = traced.event.point /\ ~traced.path.null

\* a right click away from the anchor of a visible backtrace moved the
\* anchor and set a path of more than one point
C30_Witness ==
  /\ pc = "idle"
  /\ traced.event.kind = "contextmenu"
  /\ traced.event.anchor # NullPoint /\ traced.event.anchor # traced.event.point
  /\ traced.anchor = traced.event.point
  /\ Len(traced.path.points) > 1

=============================================================================
